---- MODULE Spec2Model ----
(***************************************************************************)
(* A model of go-mp3: the byte source, the frame reader (header, CRC,     *)
(* side info, main data and bit reservoir), the Decoder (NewDecoder,      *)
(* Read, Seek, Length), the Huffman read of one granule/channel and the   *)
(* output stage of the subband synthesis.                                  *)
(*                                                                         *)
(* Representation.  A byte is a number 0..255 and a byte slice a sequence. *)
(* A 32-bit header word is kept as its four bytes <<b1, b2, b3, b4>>.      *)
(* A bit cursor is [vec, pos] with pos counted in bits (8*pos + idx of    *)
(* bits.Bits).  PCM bytes are not computed numerically: the 4608 bytes a   *)
(* frame decodes to are a block [h, si, win, st] naming everything         *)
(* Frame.Decode reads (header, side info bytes, main-data window, and for  *)
(* each channel the frame whose decode last wrote the overlap store and    *)
(* the V-vector), and a PCM buffer is a sequence of runs [blk, lo, hi] of  *)
(* such blocks.  A nil pointer or slice is the empty sequence.             *)
(*                                                                         *)
(* Style.  The result of a call is bound once, as the argument of a local  *)
(* operator that holds the code after the call; a function of the code    *)
(* that returns several values returns a record.                           *)
(***************************************************************************)
EXTENDS Integers, Sequences, FiniteSets, TLC

VARIABLES
    inp,        \* the input: [n, mdb, tail, tag], see Stream
    src,        \* the source: [data, rpos, buf, pos]
    seekable,   \* whether the reader given to NewDecoder is an io.Seeker
    status,     \* "init" | "open" | "failed" | "panicked"
    d,          \* the Decoder: [length, frameStarts, buf, frame, pos, sampleRate]
    lastOp,     \* the last API call: "none" | "NewDecoder" | "Read" | "Seek"
    lastErr,    \* the error that call returned
    lastN,      \* the count / position that call returned
    lastOut,    \* the PCM runs the last Read copied to the caller
    frlog,      \* the frame reads of the last call: [err, path, decoded, blk]
    total,      \* PCM bytes delivered by Read since construction or the last Seek
    declog,     \* blocks decoded by readFrame since then, in order
    nerrs,      \* Read calls that returned an error so far
    nseeks,     \* Seek calls so far
    scanned,    \* frames the pre-scan of NewDecoder read
    pend,       \* frame a successful Seek(K*4608, SeekStart) just targeted, or -1
    fromSeek,   \* pend as the last Read found it
    searchAt,   \* input offset of the next byte after NewDecoder's last skipTags
    hz,         \* state of the Huffman read (SpecHuff)
    sy,         \* state of the output stage (SpecSynth)
    hc,         \* state of the header checks (SpecHeader)
    rv,         \* state of the main-data assembly (SpecReservoir)
    sp,         \* state of the side-info parse (SpecSide)
    ut          \* state of the unit under check (SpecUnits)

vars == <<inp, src, seekable, status, d, lastOp, lastErr, lastN, lastOut, frlog,
          total, declog, nerrs, nseeks, scanned, pend, fromSeek, searchAt, hz, sy,
          hc, rv, sp, ut>>

streamVars == <<inp, src, seekable, status, d, lastOp, lastErr, lastN, lastOut,
                frlog, total, declog, nerrs, nseeks, scanned, pend, fromSeek,
                searchAt>>

----------------------------------------------------------------------------
(* Small helpers *)

Min(a, b) == IF a < b THEN a ELSE b

Max(a, b) == IF a > b THEN a ELSE b

RECURSIVE BitOr(_, _)
BitOr(a, b) ==
    IF a = 0 THEN b
    ELSE IF b = 0 THEN a
    ELSE (IF a % 2 = 1 \/ b % 2 = 1 THEN 1 ELSE 0) + 2 * BitOr(a \div 2, b \div 2)

Take(s, n) == SubSeq(s, 1, n)

Drop(s, n) == SubSeq(s, n + 1, Len(s))

Fill(n, v) == [k \in 1..n |-> v]

----------------------------------------------------------------------------
(* internal/bits *)

NewBits(vec) == [vec |-> vec, pos |-> 0]

\* Bit q (0 = most significant) of the 32-bit word Bits() builds from the four
\* bytes at bytepos, zero-padded past the end of the buffer.
WBit(vec, bytepos, q) ==
    IF q >= 32 THEN 0
    ELSE LET bi == bytepos + (q \div 8) + 1
         IN  IF bi > Len(vec) THEN 0 ELSE (vec[bi] \div (2 ^ (7 - (q % 8)))) % 2

RECURSIVE WField(_, _, _, _)
WField(vec, bytepos, q, num) ==
    IF num = 0 THEN 0
    ELSE WBit(vec, bytepos, q + num - 1) + 2 * WField(vec, bytepos, q, num - 1)

\* Bits.Bits(num) that leaves the cursor where it was
BitsReadNoAdvance(b, num) ==
    IF num = 0 THEN [val |-> 0, b |-> b]
    ELSE IF Len(b.vec) <= b.pos \div 8 THEN [val |-> 0, b |-> b]
    ELSE [val |-> WField(b.vec, b.pos \div 8, b.pos % 8, num), b |-> b]

\* Bits.Bits(num): [val, b]
BitsRead(b, num) ==
    IF num = 0 THEN [val |-> 0, b |-> b]
    ELSE IF Len(b.vec) <= b.pos \div 8 THEN [val |-> 0, b |-> b]
    ELSE [val |-> WField(b.vec, b.pos \div 8, b.pos % 8, num),
          b   |-> [b EXCEPT !.pos = b.pos + num]]

\* the lower bound of the slice without the test of the length
BitsSliceNoGuard(b, num) == IF num = 0 THEN -1 ELSE b.pos \div 8

\* the lower bound of b.Vec[b.pos:] in Bits.Bits(num) when the slice is taken
\* (it must be in 0 .. len(b.Vec)), -1 when the call returns before
BitsSlice(b, num) ==
    IF num = 0 THEN -1
    ELSE IF Len(b.vec) <= b.pos \div 8 THEN -1
    ELSE b.pos \div 8

\* Bits.Bit(): [val, b, idx]; idx is the index of b.Vec the call reads (it must
\* be in 0 .. len(b.Vec) - 1), -1 when it reads none
BitRead(b) ==
    IF Len(b.vec) <= b.pos \div 8 THEN [val |-> 0, b |-> b, idx |-> -1]
    ELSE [val |-> (b.vec[b.pos \div 8 + 1] \div (2 ^ (7 - (b.pos % 8)))) % 2,
          b   |-> [b EXCEPT !.pos = b.pos + 1],
          idx |-> b.pos \div 8]

\* Bits.Pos / BitPos
BitPos(b) == b.pos

\* Bits.SetPos
SetPos(b, p) == [b EXCEPT !.pos = p]

\* Reads the fields of widths ws in order: [vals, b]
RECURSIVE ReadFields(_, _)
ReadFields(b, ws) ==
    LET cons(r, rest) == [vals |-> <<r.val>> \o rest.vals, b |-> rest.b]
        next(r) == cons(r, ReadFields(r.b, Tail(ws)))
    IN  IF ws = <<>> THEN [vals |-> <<>>, b |-> b]
        ELSE next(BitsRead(b, Head(ws)))

----------------------------------------------------------------------------
(* internal/consts and internal/frameheader *)

Version2_5 == 0
VersionReserved == 1
Version2 == 2
Version1 == 3

LayerReserved == 0
Layer3 == 1
Layer2 == 2
Layer1 == 3

ModeSingleChannel == 3

BytesPerFrame == 4608
SamplesPerGr == 576

ID(h) == (h[2] \div 8) % 4

Layer(h) == (h[2] \div 2) % 4

ProtectionBit(h) == h[2] % 2

BitrateIndex(h) == h[3] \div 16

SamplingFrequency(h) == (h[3] \div 4) % 4

PaddingBit(h) == (h[3] \div 2) % 2

Mode(h) == h[4] \div 64

Emphasis(h) == h[4] % 4

\* IsValid without the test of the emphasis
IsValidNoEmphasis(h) ==
    /\ h[1] = 255 /\ h[2] \div 32 = 7
    /\ h[2] \div 8 # 29
    /\ h[3] \div 16 # 15
    /\ (h[3] \div 4) % 4 # 3
    /\ (h[2] \div 2) % 4 # 0

IsValid(h) ==
    /\ h[1] = 255 /\ h[2] \div 32 = 7
    /\ ID(h) # VersionReserved
    /\ BitrateIndex(h) # 15
    /\ SamplingFrequency(h) # 3
    /\ Layer(h) # LayerReserved
    /\ Emphasis(h) # 2

\* bitrate(layer, index); index 15 is outside the table
bitrate(layer, index) ==
    CASE layer = Layer1 ->
           <<0, 32000, 64000, 96000, 128000, 160000, 192000, 224000,
             256000, 288000, 320000, 352000, 384000, 416000, 448000>>[index + 1]
      [] layer = Layer2 ->
           <<0, 32000, 48000, 56000, 64000, 80000, 96000, 112000,
             128000, 160000, 192000, 224000, 256000, 320000, 384000>>[index + 1]
      [] layer = Layer3 ->
           <<0, 32000, 40000, 48000, 56000, 64000, 80000, 96000,
             112000, 128000, 160000, 192000, 224000, 256000, 320000>>[index + 1]

SamplingFrequencyInt(sf) == <<44100, 48000, 32000>>[sf + 1]

FrameSize(h) ==
    (144 * bitrate(Layer(h), BitrateIndex(h))) \div SamplingFrequencyInt(SamplingFrequency(h))
        + PaddingBit(h)

NumberOfChannels(h) == IF Mode(h) = ModeSingleChannel THEN 1 ELSE 2

----------------------------------------------------------------------------
(* source *)

NewSource(data) == [data |-> data, rpos |-> 0, buf |-> <<>>, pos |-> 0]

\* source.ReadFull(buf) with len(buf) = k: [n, err, data, s].  s.buf = <<>> is nil.
ReadFull(s, k) ==
    LET read == IF Len(s.buf) > 0 THEN Min(k, Len(s.buf)) ELSE 0
        got1 == Take(s.buf, read)
        buf1 == IF Len(s.buf) > read THEN Drop(s.buf, read) ELSE <<>>
        s1   == [s EXCEPT !.buf = buf1]
    IN  IF Len(s.buf) > 0 /\ k = read
        THEN [n |-> read, err |-> "nil", data |-> got1, s |-> s1]
        ELSE LET want == k - read
                 n    == Max(0, Min(want, Len(s.data) - s.rpos))
             IN  [n    |-> n + read,
                  err  |-> IF n < want THEN "EOF" ELSE "nil",
                  data |-> got1 \o SubSeq(s.data, s.rpos + 1, s.rpos + n),
                  s    |-> [s1 EXCEPT !.rpos = s.rpos + n, !.pos = s.pos + n]]

\* source.Unread
Unread(s, b) == [s EXCEPT !.buf = s.buf \o b, !.pos = s.pos - Len(b)]

\* source.Seek(position, io.SeekStart) on a seekable reader: [err, n, s]
SourceSeek(s, position) ==
    IF position < 0
    THEN [err |-> "SeekError", n |-> 0, s |-> [s EXCEPT !.buf = <<>>]]
    ELSE [err |-> "nil", n |-> position,
          s |-> [s EXCEPT !.buf = <<>>, !.rpos = position, !.pos = position]]

\* source.rewind
rewind(s) ==
    LET r == SourceSeek(s, 0)
    IN  [err |-> r.err, s |-> [r.s EXCEPT !.pos = 0, !.buf = <<>>]]

TagTAG == <<84, 65, 71>>
TagID3 == <<73, 68, 51>>

\* a tag size read as a plain big-endian number (8 bits a byte)
TagSizeWide(b) == BitOr(BitOr(b[1] * (2 ^ 24), b[2] * (2 ^ 16)), BitOr(b[3] * (2 ^ 8), b[4]))

\* the uint32 size of an ID3v2 tag from its four size bytes
TagSize(b) == BitOr(BitOr(b[1] * (2 ^ 21), b[2] * (2 ^ 14)), BitOr(b[3] * (2 ^ 7), b[4]))

\* source.skipTags: [err, s]
skipTags(s) ==
    LET res(r) == [err |-> r.err, s |-> r.s]
        payload(r3) == IF r3.err # "nil" THEN res(r3)
                       ELSE res(ReadFull(r3.s, TagSize(r3.data)))
        size(r2) == IF r2.err # "nil" THEN res(r2) ELSE payload(ReadFull(r2.s, 4))
        first(r1) ==
            IF r1.err # "nil" THEN res(r1)
            ELSE IF r1.data = TagTAG THEN res(ReadFull(r1.s, 125))
            ELSE IF r1.data = TagID3 THEN size(ReadFull(r1.s, 3))
            ELSE [err |-> "nil", s |-> Unread(r1.s, r1.data)]
    IN  first(ReadFull(s, 3))

\* source.readCRC: [err, s]
readCRC(s) ==
    LET res(r) == [err |-> IF r.n < 2 THEN "UnexpectedEOF" ELSE "nil", s |-> r.s]
    IN  res(ReadFull(s, 2))

\* the sync scan of readHeader: [err, h, pos, s]
\* the scan with EOF, not UnexpectedEOF, at the end of the source
RECURSIVE ScanHeaderEOF(_, _, _)
ScanHeaderEOF(h, s, pos) ==
    LET next(r) ==
            IF r.err # "nil"
            THEN [err |-> "EOF", h |-> h, pos |-> 0, s |-> r.s]
            ELSE ScanHeaderEOF(<<h[2], h[3], h[4], r.data[1]>>, r.s, pos + 1)
    IN  IF h[1] = 255 /\ h[2] \div 32 = 7 /\ h[2] \div 8 # 29 /\ h[3] \div 16 # 15
           /\ (h[3] \div 4) % 4 # 3 /\ (h[2] \div 2) % 4 # 0 /\ h[4] % 4 # 2
        THEN [err |-> "nil", h |-> h, pos |-> pos, s |-> s]
        ELSE next(ReadFull(s, 1))

RECURSIVE ScanHeader(_, _, _)
ScanHeader(h, s, pos) ==
    LET next(r) ==
            IF r.err # "nil"
            THEN [err |-> "UnexpectedEOF", h |-> h, pos |-> 0, s |-> r.s]
            ELSE ScanHeader(<<h[2], h[3], h[4], r.data[1]>>, r.s, pos + 1)
    IN  IF IsValid(h) THEN [err |-> "nil", h |-> h, pos |-> pos, s |-> s]
        ELSE next(ReadFull(s, 1))

\* source.readHeader: [err, h, pos, s]
readHeader(s) ==
    LET found(f) ==
            IF f.err # "nil" THEN f
            ELSE IF BitrateIndex(f.h) = 0 THEN [f EXCEPT !.err = "Unsupported", !.pos = 0]
            ELSE f
        first(r) ==
            IF r.n < 4
            THEN [err |-> IF r.n = 0 THEN "EOF" ELSE "UnexpectedEOF",
                  h |-> <<0, 0, 0, 0>>, pos |-> 0, s |-> r.s]
            ELSE found(ScanHeader(r.data, r.s, s.pos))
    IN  first(ReadFull(s, 4))

----------------------------------------------------------------------------
(* side info *)

\* the side info taken as 32 bytes for every mode
SideInfoSizeStereo(h) == 32

SideInfoSize(h) == IF NumberOfChannels(h) = 1 THEN 17 ELSE 32

\* main_data_size with the two CRC bytes never taken off
MainDataSizeNoCRC(h) == FrameSize(h) - SideInfoSize(h) - 4

\* main_data_size as readSideInfo and readMainL3 compute it
MainDataSize(h) ==
    FrameSize(h) - SideInfoSize(h) - 4 - (IF ProtectionBit(h) = 0 THEN 2 ELSE 0)

\* the fields of one granule/channel: [g, b]
ParseGranule(b) ==
    LET mk(r1, r2, r3) ==
            LET ws == r1.vals[5]
                bt == IF ws = 1 THEN r2.vals[1] ELSE 0
                mx == IF ws = 1 THEN r2.vals[2] ELSE 0
                r0 == IF ws = 1 THEN (IF bt = 2 /\ mx = 0 THEN 8 ELSE 7) ELSE r2.vals[4]
            IN  [g |-> [Part2_3Length     |-> r1.vals[1],
                        BigValues         |-> r1.vals[2],
                        GlobalGain        |-> r1.vals[3],
                        ScalefacCompress  |-> r1.vals[4],
                        WinSwitchFlag     |-> ws,
                        BlockType         |-> bt,
                        MixedBlockFlag    |-> mx,
                        TableSelect       |-> IF ws = 1 THEN <<r2.vals[3], r2.vals[4], 0>>
                                              ELSE <<r2.vals[1], r2.vals[2], r2.vals[3]>>,
                        SubblockGain      |-> IF ws = 1
                                              THEN <<r2.vals[5], r2.vals[6], r2.vals[7]>>
                                              ELSE <<0, 0, 0>>,
                        Region0Count      |-> r0,
                        Region1Count      |-> IF ws = 1 THEN 20 - r0 ELSE r2.vals[5],
                        Preflag           |-> r3.vals[1],
                        ScalefacScale     |-> r3.vals[2],
                        Count1TableSelect |-> r3.vals[3]],
                 b |-> r3.b]
        last(r1, r2) == mk(r1, r2, ReadFields(r2.b, <<1, 1, 1>>))
        mid(r1) == last(r1, ReadFields(r1.b, IF r1.vals[5] = 1
                                             THEN <<2, 1, 5, 5, 3, 3, 3>>
                                             ELSE <<5, 5, 5, 4, 3>>))
    IN  mid(ReadFields(b, <<12, 9, 8, 4, 1>>))

\* the granule/channel records in stream order (gr major): [gs, b]
RECURSIVE ParseGranules(_, _)
ParseGranules(b, k) ==
    LET cons(r, rest) == [gs |-> <<r.g>> \o rest.gs, b |-> rest.b]
        next(r) == cons(r, ParseGranules(r.b, k - 1))
    IN  IF k = 0 THEN [gs |-> <<>>, b |-> b]
        ELSE next(ParseGranule(b))

\* the parse of the side info bytes: the SideInfo value and the bits consumed
ParseSideInfo(h, bytes) ==
    LET nch == NumberOfChannels(h)
        mk(r1, r2, r3) ==
            [MainDataBegin |-> r1.vals[1],
             PrivateBits   |-> r1.vals[2],
             Scfsi         |-> r2.vals,
             gs            |-> r3.gs,
             nch           |-> nch,
             used          |-> BitPos(r3.b)]
        grs(r1, r2) == mk(r1, r2, ParseGranules(r2.b, 2 * nch))
        scfsi(r1) == grs(r1, ReadFields(r1.b, Fill(4 * nch, 1)))
    IN  scfsi(ReadFields(NewBits(bytes),
                         <<9, IF Mode(h) = ModeSingleChannel THEN 5 ELSE 3>>))

\* SideInfo.X[gr][ch] and Scfsi[ch][band], gr, ch, band from 0
Gran(info, gr, ch) == info.gs[gr * info.nch + ch + 1]

ScfsiOf(info, ch, band) == info.Scfsi[4 * ch + band + 1]

\* source.readSideInfo: [err, bytes, info, s]
readSideInfo(s, h) ==
    LET res(r) ==
            IF r.n < SideInfoSize(h)
            THEN [err |-> "UnexpectedEOF", bytes |-> <<>>, info |-> <<>>, s |-> r.s]
            ELSE [err |-> "nil", bytes |-> r.data,
                  info |-> <<ParseSideInfo(h, r.data)>>, s |-> r.s]
    IN  IF FrameSize(h) > 2000
        THEN [err |-> "Malformed", bytes |-> <<>>, info |-> <<>>, s |-> s]
        ELSE res(ReadFull(s, SideInfoSize(h)))

----------------------------------------------------------------------------
(* main data *)

\* Bits.Tail(offset): the last offset bytes
BitsTail(b, offset) == SubSeq(b.vec, Len(b.vec) - offset + 1, Len(b.vec))

\* bits.Append(prev, buf)
BitsAppend(b, buf) == NewBits(b.vec \o buf)

\* maindata.Read that keeps the whole prior reservoir, whatever the offset
maindataReadWhole(s, prev, size, offset) ==
    LET vec == IF prev # <<>> THEN prev[1].vec ELSE <<>>
        res(r) ==
            IF r.n < size
            THEN [err |-> "UnexpectedEOF", m |-> NewBits(<<>>), s |-> r.s, path |-> "none"]
            ELSE [err |-> "nil", m |-> NewBits(vec \o r.data), s |-> r.s,
                  path |-> IF prev # <<>> /\ offset > Len(vec) THEN "insufficient"
                           ELSE "normal"]
    IN  IF size > 1500
        THEN [err |-> "Malformed", m |-> NewBits(<<>>), s |-> s, path |-> "none"]
        ELSE res(ReadFull(s, size))

\* maindata.Read without the limit of 1500 bytes
maindataReadNoLimit(s, prev, size, offset) ==
    LET short == prev # <<>> /\ offset > Len(prev[1].vec)
        vec   == IF prev # <<>> THEN BitsTail(prev[1], offset) ELSE <<>>
        res(r) ==
            IF r.n < size
            THEN [err |-> "UnexpectedEOF", m |-> NewBits(<<>>), s |-> r.s, path |-> "none"]
            ELSE IF short
            THEN [err |-> "nil", m |-> BitsAppend(prev[1], r.data), s |-> r.s,
                  path |-> "insufficient"]
            ELSE [err |-> "nil", m |-> NewBits(vec \o r.data), s |-> r.s,
                  path |-> "normal"]
    IN  res(ReadFull(s, size))

\* maindata.Read(source, prev, size, offset): [err, m, s, path]; prev is <<>> (nil)
\* or <<bits>>.  path tells which branch built the cursor.
maindataRead(s, prev, size, offset) ==
    LET short == prev # <<>> /\ offset > Len(prev[1].vec)
        vec   == IF prev # <<>> THEN BitsTail(prev[1], offset) ELSE <<>>
        res(r) ==
            IF r.n < size
            THEN [err |-> "UnexpectedEOF", m |-> NewBits(<<>>), s |-> r.s, path |-> "none"]
            ELSE IF short
            THEN [err |-> "nil", m |-> BitsAppend(prev[1], r.data), s |-> r.s,
                  path |-> "insufficient"]
            ELSE [err |-> "nil", m |-> NewBits(vec \o r.data), s |-> r.s,
                  path |-> "normal"]
    IN  IF size > 1500
        THEN [err |-> "Malformed", m |-> NewBits(<<>>), s |-> s, path |-> "none"]
        ELSE res(ReadFull(s, size))

mpeg1ScalefacSizes ==
    << <<0, 0>>, <<0, 1>>, <<0, 2>>, <<0, 3>>, <<3, 0>>, <<1, 1>>, <<1, 2>>, <<1, 3>>,
       <<2, 1>>, <<2, 2>>, <<2, 3>>, <<3, 1>>, <<3, 2>>, <<3, 3>>, <<4, 2>>, <<4, 3>> >>

\* the widths when every range is read, whatever scfsi says
ScalefacWidthsAll(info, gr, ch) ==
    LET g     == info.gs[gr * info.nch + ch + 1]
        slen1 == mpeg1ScalefacSizes[g.ScalefacCompress + 1][1]
        slen2 == mpeg1ScalefacSizes[g.ScalefacCompress + 1][2]
    IN  IF g.WinSwitchFlag # 0 /\ g.BlockType = 2
        THEN IF g.MixedBlockFlag # 0
             THEN Fill(8, slen1) \o Fill(9, slen1) \o Fill(18, slen2)
             ELSE Fill(18, slen1) \o Fill(18, slen2)
        ELSE Fill(11, slen1) \o Fill(10, slen2)

\* the widths of the scale factors readMainL3 reads for (gr, ch), in order
ScalefacWidths(info, gr, ch) ==
    LET g     == Gran(info, gr, ch)
        slen1 == mpeg1ScalefacSizes[g.ScalefacCompress + 1][1]
        slen2 == mpeg1ScalefacSizes[g.ScalefacCompress + 1][2]
        range(band, n, w) ==
            IF ScfsiOf(info, ch, band) = 0 \/ gr = 0 THEN Fill(n, w) ELSE <<>>
    IN  IF g.WinSwitchFlag # 0 /\ g.BlockType = 2
        THEN IF g.MixedBlockFlag # 0
             THEN Fill(8, slen1) \o Fill(9, slen1) \o Fill(18, slen2)
             ELSE Fill(18, slen1) \o Fill(18, slen2)
        ELSE range(0, 6, slen1) \o range(1, 5, slen1)
                 \o range(2, 5, slen2) \o range(3, 5, slen2)

\* md.ScalefacL[gr][ch] after the scale factors of (gr, ch) are read: vals are
\* the values read, in order, l0 is md.ScalefacL[0][ch]; a fresh MainData holds
\* zeros
ScalefacLOf(info, gr, ch, vals, l0) ==
    LET g == Gran(info, gr, ch)
        rd(bd) == ScfsiOf(info, ch, bd) = 0 \/ gr = 0
        band(sfb) == IF sfb < 6 THEN 0 ELSE IF sfb < 11 THEN 1 ELSE IF sfb < 16 THEN 2 ELSE 3
        first(bd) == <<0, 6, 11, 16>>[bd + 1]
        cnt(bd) == IF rd(bd) THEN <<6, 5, 5, 5>>[bd + 1] ELSE 0
        before(bd) == (IF bd > 0 THEN cnt(0) ELSE 0) + (IF bd > 1 THEN cnt(1) ELSE 0)
                         + (IF bd > 2 THEN cnt(2) ELSE 0)
    IN  IF g.WinSwitchFlag # 0 /\ g.BlockType = 2
        THEN IF g.MixedBlockFlag # 0
             THEN [sfb \in 1..21 |-> IF sfb <= 8 THEN vals[sfb] ELSE 0]
             ELSE Fill(21, 0)
        ELSE [sfb \in 1..21 |->
                 IF rd(band(sfb - 1))
                 THEN vals[before(band(sfb - 1)) + (sfb - 1 - first(band(sfb - 1))) + 1]
                 ELSE l0[sfb]]

\* consts.SfBandIndicesSet[sfreq].L: the long scale-factor-band boundaries of
\* ISO/IEC 11172-3 for 44.1, 48 and 32 kHz
sfBandIndicesLong(sfreq) ==
    << <<0, 4, 8, 12, 16, 20, 24, 30, 36, 44, 52, 62, 74, 90, 110, 134, 162, 196,
         238, 288, 342, 418, 576>>,
       <<0, 4, 8, 12, 16, 20, 24, 30, 36, 42, 50, 60, 72, 88, 106, 128, 156, 190,
         230, 276, 330, 384, 576>>,
       <<0, 4, 8, 12, 16, 20, 24, 30, 36, 44, 54, 66, 82, 102, 126, 156, 194, 240,
         296, 364, 448, 550, 576>> >>[sfreq + 1]

\* the region boundaries readHuffman computes: [err, r1, r2]
RegionStarts(g, sfreq) ==
    LET l == sfBandIndicesLong(sfreq)
        i == g.Region0Count + 1
        j == g.Region0Count + g.Region1Count + 2
    IN  IF g.WinSwitchFlag = 1 /\ g.BlockType = 2
        THEN [err |-> "nil", r1 |-> 36, r2 |-> SamplesPerGr]
        ELSE IF i < 0 \/ Len(l) <= i \/ j < 0 \/ Len(l) <= j
        THEN [err |-> "Malformed", r1 |-> 0, r2 |-> 0]
        ELSE [err |-> "nil", r1 |-> l[i + 1], r2 |-> l[j + 1]]

\* readHuffman up to the first codeword: [err, m].  "HuffmanData" marks a granule
\* whose codewords would be read next (SpecHuff models that part); the inputs
\* of Spec carry no such granule.
readHuffmanEntry(m, h, info, part_2_start, gr, ch) ==
    LET g == Gran(info, gr, ch)
    IN  IF g.Part2_3Length = 0 THEN [err |-> "nil", m |-> m]
        ELSE IF RegionStarts(g, SamplingFrequency(h)).err # "nil"
        THEN [err |-> "Malformed", m |-> m]
        ELSE [err |-> "HuffmanData", m |-> m]

\* the gr/ch loop of readMainL3 from granule/channel number k: [err, m]
RECURSIVE ReadGranules(_, _, _, _)
ReadGranules(m, h, info, k) ==
    LET gr == k \div info.nch
        ch == k % info.nch
        next(hf) == IF hf.err # "nil" THEN hf ELSE ReadGranules(hf.m, h, info, k + 1)
        huff(sf) == next(readHuffmanEntry(sf.b, h, info, BitPos(m), gr, ch))
    IN  IF k = 2 * info.nch THEN [err |-> "nil", m |-> m]
        ELSE huff(ReadFields(m, ScalefacWidths(info, gr, ch)))

\* source.readMainL3: [err, m, s, path]
readMainL3(s, prev, h, info) ==
    LET res(r, p) == [err |-> p.err, m |-> p.m, s |-> r.s, path |-> r.path]
        parse(r) == IF r.err # "nil" THEN r ELSE res(r, ReadGranules(r.m, h, info, 0))
    IN  IF FrameSize(h) > 2000
        THEN [err |-> "Malformed", m |-> NewBits(<<>>), s |-> s, path |-> "none"]
        ELSE parse(maindataRead(s, prev, MainDataSize(h), info.MainDataBegin))

----------------------------------------------------------------------------
(* frames *)

\* a frame that never takes the store and v_vec of the frame before
NewFrameFresh(h, bytes, info, m, prev) ==
    [h |-> h, si |-> bytes, info |-> info, bits |-> m, st |-> << <<>>, <<>> >>]

\* frame.New: store and v_vec are copied from prev, zero without one.  st[c] is
\* <<>> while channel c-1 holds zeros, else <<k>> with k the [h, si, win] of the
\* frame whose decode last wrote them.
NewFrame(h, bytes, info, m, prev) ==
    [h |-> h, si |-> bytes, info |-> info, bits |-> m,
     st |-> IF prev # <<>> THEN prev[1].st ELSE << <<>>, <<>> >>]

\* source.readNextFrame(prev): [err, f, pos, s, path]; prev and f are <<>> or <<frame>>
readNextFrame(s, prev) ==
    LET fail(e, s1) == [err |-> e, f |-> <<>>, pos |-> 0, s |-> s1, path |-> "none"]
        prevM == IF prev # <<>> THEN <<prev[1].bits>> ELSE <<>>
        done(hd, si, md) ==
            IF md.err # "nil" THEN fail(md.err, md.s)
            ELSE [err  |-> "nil",
                  f    |-> <<NewFrame(hd.h, si.bytes, si.info[1], md.m, prev)>>,
                  pos  |-> hd.pos,
                  s    |-> md.s,
                  path |-> md.path]
        main(hd, si) ==
            IF si.err # "nil" THEN fail(si.err, si.s)
            ELSE done(hd, si, readMainL3(si.s, prevM, hd.h, si.info[1]))
        side(hd, crc) ==
            IF crc.err # "nil" THEN fail(crc.err, crc.s)
            ELSE IF ID(hd.h) # Version1 THEN fail("Unsupported", crc.s)
            ELSE IF Layer(hd.h) # Layer3 THEN fail("Unsupported", crc.s)
            ELSE main(hd, readSideInfo(crc.s, hd.h))
        check(hd) ==
            IF hd.err # "nil" THEN fail(hd.err, hd.s)
            ELSE IF ProtectionBit(hd.h) = 0 THEN side(hd, readCRC(hd.s))
            ELSE side(hd, [err |-> "nil", s |-> hd.s])
    IN  check(readHeader(s))

\* consts.SfBandIndicesSet[sfreq].S: the short scale-factor-band boundaries of
\* ISO/IEC 11172-3 for 44.1, 48 and 32 kHz
sfBandIndicesShort(sfreq) ==
    << <<0, 4, 8, 12, 16, 22, 30, 40, 52, 66, 84, 106, 136, 192>>,
       <<0, 4, 8, 12, 16, 22, 28, 38, 50, 64, 80, 100, 126, 192>>,
       <<0, 4, 8, 12, 16, 22, 30, 42, 58, 78, 104, 138, 180, 192>> >>[sfreq + 1]

\* the short-block loop of Frame.requantize from band sfb, which starts at
\* sample i: the sfb values passed to requantizeProcessShort
RECURSIVE requantizeShortSfbs(_, _, _)
requantizeShortSfbs(sfb, count1, S) ==
    IF ~(3 * S[sfb + 1] < count1) THEN {}
    ELSE IF 3 * S[sfb + 2] >= SamplesPerGr THEN {sfb}
    ELSE {sfb} \cup requantizeShortSfbs(sfb + 1, count1, S)

\* Frame.requantize(gr, ch): the indices it passes on, l those into
\* ScalefacL[gr][ch] (requantizeProcessLong), s those into ScalefacS[gr][ch]
\* (requantizeProcessShort); sfb is raised whenever i reaches next_sfb
requantize(g, count1, sfreq) ==
    LET L == sfBandIndicesLong(sfreq)
        S == sfBandIndicesShort(sfreq)
        sfbAt(i) == Cardinality({ k \in 1..22 : L[k + 1] <= i })
    IN  IF g.WinSwitchFlag = 1 /\ g.BlockType = 2
        THEN IF g.MixedBlockFlag # 0
             THEN [l |-> { sfbAt(i) : i \in 0..35 },
                   s |-> IF 36 < count1 THEN requantizeShortSfbs(3, count1, S) ELSE {}]
             ELSE [l |-> {}, s |-> requantizeShortSfbs(0, count1, S)]
        ELSE [l |-> { sfbAt(i) : i \in 0..(count1 - 1) }, s |-> {}]

\* a reorder that moves nothing
reorderNothing(is, g, count1, sfreq) == is

\* the loop of Frame.reorder from the start of band sfb: the band is written
\* back in the order re[j*3+win] = is[i], i running over the windows one after
\* the other; the loop ends after band 12 or at the first band boundary at or
\* beyond count1
RECURSIVE reorderFrom(_, _, _, _)
reorderFrom(is, sfb, count1, S) ==
    LET base == 3 * S[sfb + 1]
        win_len == S[sfb + 2] - S[sfb + 1]
        is2 == [n \in 1..SamplesPerGr |->
                   IF n - 1 >= base /\ n - 1 < base + 3 * win_len
                   THEN is[base + ((n - 1 - base) % 3) * win_len + (n - 1 - base) \div 3 + 1]
                   ELSE is[n]]
    IN  IF sfb = 12 THEN is2
        ELSE IF base + 3 * win_len >= count1 THEN is2
        ELSE reorderFrom(is2, sfb + 1, count1, S)

\* Frame.reorder(gr, ch) on is = Is[gr][ch] with g the side info of (gr, ch)
reorder(is, g, count1, sfreq) ==
    IF g.WinSwitchFlag = 1 /\ g.BlockType = 2
    THEN reorderFrom(is, IF g.MixedBlockFlag # 0 THEN 3 ELSE 0, count1,
                     sfBandIndicesShort(sfreq))
    ELSE is

\* an inversion that negates the odd samples of every subband
frequencyInversionAll(is) ==
    [n \in 1..SamplesPerGr |-> IF ((n - 1) % 18) % 2 = 1 THEN -is[n] ELSE is[n]]

\* Frame.frequencyInversion(gr, ch) on is = Is[gr][ch]
frequencyInversion(is) ==
    LET idx == { sb * 18 + i : sb \in { 2 * k + 1 : k \in 0..15 },
                               i \in { 2 * k + 1 : k \in 0..8 } }
    IN  [n \in 1..SamplesPerGr |-> IF n - 1 \in idx THEN -is[n] ELSE is[n]]

\* Frame.hybridSynthesis(gr, ch) on is = Is[gr][ch] and st = store[ch], both as
\* 576 values (index sb * 18 + i); raw[sb + 1] are the 36 values imdct.Win
\* returns for subband sb: [is, st]
hybridSynthesis(is, st, raw) ==
    [is |-> [n \in 1..SamplesPerGr |->
                raw[(n - 1) \div 18 + 1][((n - 1) % 18) + 1] + st[n]],
     st |-> [n \in 1..SamplesPerGr |-> raw[(n - 1) \div 18 + 1][((n - 1) % 18) + 19]]]

\* Frame.Decode: [out, f], the block of BytesPerFrame bytes and the frame with
\* the store and v_vec of its channels rewritten (hybridSynthesis overwrites
\* store[ch] and the 18 shifts of a granule overwrite all of v_vec[ch]).
Decode(f) ==
    LET k == [h |-> f.h, si |-> f.si, win |-> f.bits.vec]
    IN  [out |-> [h |-> f.h, si |-> f.si, win |-> f.bits.vec, st |-> f.st],
         f   |-> [f EXCEPT !.st = [c \in 1..2 |->
                                      IF c <= NumberOfChannels(f.h) THEN <<k>> ELSE f.st[c]]]]

----------------------------------------------------------------------------
(* PCM buffers as runs [blk, lo, hi]: bytes lo .. hi-1 of block blk *)

RECURSIVE BufLen(_)
BufLen(b) == IF b = <<>> THEN 0 ELSE (Head(b).hi - Head(b).lo) + BufLen(Tail(b))

\* b[n:] for 0 <= n <= len(b)
RECURSIVE BufDrop(_, _)
BufDrop(b, n) ==
    IF b = <<>> THEN <<>>
    ELSE IF n = 0 THEN b
    ELSE LET r == Head(b)
         IN  IF n >= r.hi - r.lo THEN BufDrop(Tail(b), n - (r.hi - r.lo))
             ELSE <<[r EXCEPT !.lo = r.lo + n]>> \o Tail(b)

\* b[:n] for 0 <= n <= len(b)
RECURSIVE BufTake(_, _)
BufTake(b, n) ==
    IF b = <<>> \/ n = 0 THEN <<>>
    ELSE LET r == Head(b)
         IN  IF n >= r.hi - r.lo THEN <<r>> \o BufTake(Tail(b), n - (r.hi - r.lo))
             ELSE <<[r EXCEPT !.hi = r.lo + n]>>

\* Go's integer division and remainder (truncated towards zero), b > 0
GoDiv(a, b) == IF a >= 0 THEN a \div b ELSE -((-a) \div b)

GoMod(a, b) == a - b * GoDiv(a, b)

----------------------------------------------------------------------------
(* Decoder *)

SeekStart == 0
SeekCurrent == 1
SeekEnd == 2

\* every failed frame read reported as the end of the stream
MapErrAll(e) == "EOF"

\* the error Decoder.readFrame returns for a failed frame read
MapErr(e) == IF e = "EOF" \/ e = "UnexpectedEOF" THEN "EOF" ELSE e

\* Decoder.readFrame: [err, d, s, log]; log is the record of this frame read
readFrame(dd, s) ==
    LET ok(r, dec) ==
            [err |-> "nil",
             d   |-> [dd EXCEPT !.frame = <<dec.f>>,
                                !.buf = @ \o <<[blk |-> dec.out, lo |-> 0,
                                                hi |-> BytesPerFrame]>>],
             s   |-> r.s,
             log |-> [err |-> "nil", path |-> r.path, decoded |-> TRUE,
                      blk |-> <<dec.out>>]]
        res(r) ==
            IF r.err # "nil"
            THEN [err |-> MapErr(r.err),
                  d   |-> [dd EXCEPT !.frame = <<>>],
                  s   |-> r.s,
                  log |-> [err |-> r.err, path |-> r.path, decoded |-> FALSE,
                           blk |-> <<>>]]
            ELSE ok(r, Decode(r.f[1]))
    IN  res(readNextFrame(s, dd.frame))

\* the blocks a sequence of frame-read records decoded
RECURSIVE LogBlocks(_)
LogBlocks(log) ==
    IF log = <<>> THEN <<>> ELSE Head(log).blk \o LogBlocks(Tail(log))

\* a pre-scan that stops before its first frame
PreScanNone(s, f, starts, l, n) ==
    [err |-> "nil", s |-> s, frameStarts |-> starts, l |-> l, n |-> n]

\* the pre-scan loop of NewDecoder: [err, s, frameStarts, l, n]
RECURSIVE PreScan(_, _, _, _, _)
PreScan(s, f, starts, l, n) ==
    LET next(r) ==
            IF r.err = "EOF" \/ r.err = "UnexpectedEOF"
            THEN [err |-> "nil", s |-> r.s, frameStarts |-> starts, l |-> l, n |-> n]
            ELSE IF r.err # "nil"
            THEN [err |-> r.err, s |-> r.s, frameStarts |-> starts, l |-> l, n |-> n]
            ELSE PreScan(r.s, r.f, Append(starts, r.pos), l + BytesPerFrame, n + 1)
    IN  next(readNextFrame(s, f))

NewD == [length |-> -1, frameStarts |-> <<>>, buf |-> <<>>, frame |-> <<>>,
         pos |-> 0, sampleRate |-> 0]

\* NewDecoder(r): [err, d, s, log, at, n]; at is the input offset at which the
\* header search starts after the last skipTags, n the frames pre-scanned
NewDecoderOf(data, isSeeker) ==
    LET fail(e, s) == [err |-> e, d |-> NewD, s |-> s, log |-> <<>>, at |-> -1, n |-> 0]
        done(ps, t2, rf) ==
            IF rf.err # "nil"
            THEN [err |-> rf.err, d |-> NewD, s |-> rf.s, log |-> <<rf.log>>,
                  at |-> t2.s.rpos - Len(t2.s.buf), n |-> ps.n]
            ELSE [err |-> "nil",
                  d   |-> [rf.d EXCEPT !.sampleRate =
                               SamplingFrequencyInt(SamplingFrequency(rf.d.frame[1].h))],
                  s   |-> rf.s,
                  log |-> <<rf.log>>,
                  at  |-> t2.s.rpos - Len(t2.s.buf),
                  n   |-> ps.n]
        first(ps, t2) ==
            IF t2.err # "nil" THEN fail(t2.err, t2.s)
            ELSE done(ps, t2,
                      readFrame(IF isSeeker
                                THEN [NewD EXCEPT !.length = ps.l,
                                                  !.frameStarts = ps.frameStarts]
                                ELSE NewD, t2.s))
        tags(ps, rw) == IF rw.err # "nil" THEN fail(rw.err, rw.s)
                        ELSE first(ps, skipTags(rw.s))
        back(ps) == IF ps.err # "nil" THEN fail(ps.err, ps.s)
                    ELSE tags(ps, rewind(ps.s))
        scan(t1) == IF t1.err # "nil" THEN fail(t1.err, t1.s)
                    ELSE back(PreScan(t1.s, <<>>, <<>>, 0, 0))
    IN  IF isSeeker THEN scan(skipTags(NewSource(data)))
        ELSE first([n |-> 0], skipTags(NewSource(data)))

\* Decoder.Read with len(buf) = k > 0: [n, err, d, s, out, log]
ReadOf(dd, s, k) ==
    LET copy(rf, lg) ==
            LET n == Min(k, BufLen(rf.d.buf))
            IN  IF rf.err # "nil"
                THEN [n |-> 0, err |-> rf.err, d |-> rf.d, s |-> rf.s, out |-> <<>>,
                      log |-> lg]
                ELSE [n |-> n, err |-> "nil",
                      d |-> [rf.d EXCEPT !.buf = BufDrop(@, n), !.pos = @ + n],
                      s |-> rf.s, out |-> BufTake(rf.d.buf, n), log |-> lg]
        fill(rf) == copy(rf, <<rf.log>>)
    IN  IF BufLen(dd.buf) = 0 THEN fill(readFrame(dd, s))
        ELSE copy([err |-> "nil", d |-> dd, s |-> s], <<>>)

\* Decoder.Length
Length(dd) == dd.length

\* Decoder.Seek: [n, err, d, s, log, panic]
SeekOf(dd, s, offset, whence, isSeeker) ==
    LET npos == CASE whence = SeekStart -> offset
                  [] whence = SeekCurrent -> dd.pos + offset
                  [] whence = SeekEnd -> dd.length + offset
                  [] OTHER -> 0
        d0   == [dd EXCEPT !.pos = npos, !.buf = <<>>, !.frame = <<>>]
        f0   == GoDiv(npos, BytesPerFrame)
        f    == IF f0 > 0 THEN f0 - 1 ELSE f0
        boom(dx, sx, lg) == [n |-> 0, err |-> "panic", d |-> dx, s |-> sx, log |-> lg,
                             panic |-> TRUE]
        ret(n, e, dx, sx, lg) == [n |-> n, err |-> e, d |-> dx, s |-> sx, log |-> lg,
                                  panic |-> FALSE]
        second(r1, r2) ==
            IF r2.err # "nil" THEN ret(0, r2.err, r2.d, r2.s, <<r1.log, r2.log>>)
            ELSE ret(npos, "nil",
                     [r2.d EXCEPT !.buf =
                         BufDrop(@, BytesPerFrame + GoMod(npos, BytesPerFrame))],
                     r2.s, <<r1.log, r2.log>>)
        first(r1) ==
            IF r1.err # "nil" THEN ret(0, r1.err, r1.d, r1.s, <<r1.log>>)
            ELSE IF f0 > 0 THEN second(r1, readFrame(r1.d, r1.s))
            ELSE IF npos < 0 \/ npos > BufLen(r1.d.buf) THEN boom(r1.d, r1.s, <<r1.log>>)
            ELSE ret(npos, "nil", [r1.d EXCEPT !.buf = BufDrop(@, npos)], r1.s, <<r1.log>>)
        seek(sk) == IF sk.err # "nil" THEN ret(0, sk.err, d0, sk.s, <<>>)
                    ELSE first(readFrame(d0, sk.s))
    IN  IF whence \notin {SeekStart, SeekCurrent, SeekEnd} THEN boom(dd, s, <<>>)
        ELSE IF f < 0 \/ f >= Len(dd.frameStarts) THEN boom(d0, s, <<>>)
        ELSE IF ~isSeeker THEN boom(d0, s, <<>>)
        ELSE seek(SourceSeek(s, dd.frameStarts[f + 1]))

----------------------------------------------------------------------------
(* Inputs: an optional leading tag, n single-channel Layer III frames of 96   *)
(* bytes (32 kbit/s, 48 kHz) whose granules carry no Huffman data, and a      *)
(* tail.  Frame 0 has main_data_begin = 0; the frames with an odd number      *)
(* carry a CRC.                                                               *)

MaxFrames == 3
MaxErrs == 2
MaxSeeks == 1

MdbChoices == {0, 50, 100}
Tails == {"clean", "truncated", "garbage", "malformed", "unsupported"}
Tags == {"none", "id3"}
ReadSizes == {3000, 4608}

\* the (offset, whence) pairs of the Seek calls; whence 3 is not a valid whence
SeekArgs ==
    { <<k * BytesPerFrame, SeekStart>> : k \in 0..MaxFrames }
        \cup { <<100, SeekStart>>, <<-1, SeekStart>>, <<BytesPerFrame, SeekCurrent>>,
               <<-BytesPerFrame, SeekEnd>>, <<0, 3>> }

HasCRC(i) == i % 2 = 1

FrameHeaderBytes(crc) == <<255, IF crc THEN 250 ELSE 251, 20, 192>>

\* side info of a single-channel frame: main_data_begin = mdb, all else zero
SideInfoBytes(mdb) == <<mdb \div 2, (mdb % 2) * 128>> \o Fill(15, 0)

\* as SideInfoBytes(0) but granule 0 has part2_3_length = 1, region0_count = 15
\* and region1_count = 7
BadSideInfoBytes == <<0, 0, 0, 4, 0, 0, 0, 0, 31, 192>> \o Fill(7, 0)

\* main data bytes of frame i; no byte is 255, so no sync word starts in them
MainBytes(i, n) == [j \in 1..n |-> (i * 75 + j) % 254]

FrameBytes(i, si, crc) ==
    FrameHeaderBytes(crc) \o (IF crc THEN <<17, 34>> ELSE <<>>) \o si
        \o MainBytes(i, MainDataSize(FrameHeaderBytes(crc)))

RECURSIVE FramesBytes(_, _)
FramesBytes(i, mdb) ==
    IF i >= Len(mdb) THEN <<>>
    ELSE FrameBytes(i, SideInfoBytes(mdb[i + 1]), HasCRC(i)) \o FramesBytes(i + 1, mdb)

TailBytes(kind, n) ==
    CASE kind = "clean" -> <<>>
      [] kind = "truncated" -> Take(FrameBytes(n, SideInfoBytes(0), HasCRC(n)), 40)
      [] kind = "garbage" -> <<1, 2, 3, 4, 5, 6>>
      [] kind = "malformed" -> FrameBytes(n, BadSideInfoBytes, HasCRC(n))
      [] kind = "unsupported" -> <<255, 253, 20, 192, 7, 7, 7, 7>>

\* an ID3v2 tag of 130 payload bytes (a frame header among them), or an
\* ID3v1-style "TAG" block of 128 bytes
TagBytes(kind) ==
    CASE kind = "none" -> <<>>
      [] kind = "id3" -> TagID3 \o <<3, 0, 0>> \o <<0, 0, 1, 2>>
                           \o <<255, 251, 20, 192>> \o Fill(126, 9)

BodyBytes(i) == FramesBytes(0, i.mdb) \o TailBytes(i.tail, i.n)

Stream(i) == TagBytes(i.tag) \o BodyBytes(i)

Inputs ==
    { [n |-> Len(m), mdb |-> m, tail |-> tl, tag |-> tg] :
        m \in { x \in UNION { [1..k -> MdbChoices] : k \in 1..MaxFrames } : x[1] = 0 },
        tl \in Tails, tg \in Tags }

----------------------------------------------------------------------------
(* The stream-level state machine *)

HzIdle == [pc |-> "idle"]
SyIdle == [pc |-> "idle"]
HcIdle == [pc |-> "idle"]
RvIdle == [pc |-> "idle"]
SpIdle == [pc |-> "idle"]
UtIdle == [pc |-> "idle"]

Init ==
    /\ inp \in Inputs
    /\ seekable \in BOOLEAN
    /\ src = NewSource(Stream(inp))
    /\ status = "init"
    /\ d = NewD
    /\ lastOp = "none" /\ lastErr = "nil" /\ lastN = 0 /\ lastOut = <<>>
    /\ frlog = <<>> /\ total = 0 /\ declog = <<>>
    /\ nerrs = 0 /\ nseeks = 0 /\ scanned = 0
    /\ pend = -1 /\ fromSeek = -1 /\ searchAt = -1
    /\ hz = HzIdle /\ sy = SyIdle /\ hc = HcIdle /\ rv = RvIdle /\ sp = SpIdle /\ ut = UtIdle

\* d, err := NewDecoder(r)
NewDecoder ==
    /\ status = "init"
    /\ \E r \in {NewDecoderOf(src.data, seekable)} :
           /\ status' = IF r.err = "nil" THEN "open" ELSE "failed"
           /\ d' = r.d
           /\ src' = r.s
           /\ lastErr' = r.err
           /\ frlog' = r.log
           /\ declog' = LogBlocks(r.log)
           /\ searchAt' = r.at
           /\ scanned' = r.n
    /\ lastOp' = "NewDecoder" /\ lastN' = 0 /\ lastOut' = <<>>
    /\ UNCHANGED <<inp, seekable, total, nerrs, nseeks, pend, fromSeek, hz, sy, hc, rv, sp, ut>>

\* n, err := d.Read(buf) with len(buf) = k
Read(k) ==
    /\ status = "open"
    /\ nerrs < MaxErrs
    /\ \E r \in {ReadOf(d, src, k)} :
           /\ d' = r.d
           /\ src' = r.s
           /\ lastErr' = r.err
           /\ lastN' = r.n
           /\ lastOut' = r.out
           /\ frlog' = r.log
           /\ declog' = declog \o LogBlocks(r.log)
           /\ total' = total + r.n
           /\ nerrs' = IF r.err = "nil" THEN nerrs ELSE nerrs + 1
    /\ lastOp' = "Read"
    /\ fromSeek' = pend /\ pend' = -1
    /\ UNCHANGED <<inp, seekable, status, nseeks, scanned, searchAt, hz, sy, hc, rv, sp, ut>>

\* n, err := d.Seek(offset, whence)
Seek(offset, whence) ==
    /\ status = "open"
    /\ nseeks < MaxSeeks
    /\ \E r \in {SeekOf(d, src, offset, whence, seekable)} :
           /\ d' = r.d
           /\ src' = r.s
           /\ lastErr' = r.err
           /\ lastN' = r.n
           /\ frlog' = r.log
           /\ declog' = LogBlocks(r.log)
           /\ status' = IF r.panic THEN "panicked" ELSE status
           /\ pend' = IF r.err = "nil" /\ whence = SeekStart /\ offset >= 0
                         /\ offset % BytesPerFrame = 0
                      THEN offset \div BytesPerFrame ELSE -1
    /\ lastOp' = "Seek" /\ lastOut' = <<>>
    /\ nseeks' = nseeks + 1
    /\ fromSeek' = -1 /\ total' = 0
    /\ UNCHANGED <<inp, seekable, nerrs, scanned, searchAt, hz, sy, hc, rv, sp, ut>>

Next ==
    \/ NewDecoder
    \/ \E k \in ReadSizes : Read(k)
    \/ \E a \in SeekArgs : Seek(a[1], a[2])

Spec == Init /\ [][Next]_vars

----------------------------------------------------------------------------
(* The linear decode of a byte string: NewDecoder on a reader that cannot     *)
(* seek, then frame reads until one fails.  [blocks, err]                     *)

RECURSIVE ReadAll(_, _, _)
ReadAll(dd, s, acc) ==
    LET next(rf) ==
            IF rf.err # "nil" THEN [blocks |-> acc, err |-> rf.log.err]
            ELSE ReadAll([rf.d EXCEPT !.buf = <<>>], rf.s, acc \o rf.log.blk)
    IN  next(readFrame(dd, s))

LinearDecode(data) ==
    LET start(nd) ==
            IF nd.err # "nil" THEN [blocks |-> <<>>, err |-> nd.err]
            ELSE ReadAll([nd.d EXCEPT !.buf = <<>>], nd.s, LogBlocks(nd.log))
    IN  start(NewDecoderOf(data, FALSE))

\* two blocks decoded from the same header, side info and main-data window
SameWindow(a, b) == a.h = b.h /\ a.si = b.si /\ a.win = b.win

LastOf(s) == s[Len(s)]

TailIsBad == inp.tail \in {"malformed", "unsupported"}

TailErr == IF inp.tail = "malformed" THEN "Malformed" ELSE "Unsupported"

----------------------------------------------------------------------------
(* Claims on the stream-level machine *)

\* C1: a frame whose main_data_begin exceeds the bytes of the existing
\* reservoir is reported to the driver as InsufficientReservoir and is not
\* decoded.
C1_InsufficientReservoirReported ==
    \A i \in 1..Len(frlog) :
        frlog[i].path = "insufficient" =>
            frlog[i].err = "InsufficientReservoir" /\ ~frlog[i].decoded

\* C3: after Seek(K*4608, SeekStart) with K a frame of the stream, reading 4608
\* bytes returns the whole block of frame K, decoded from the same header, side
\* info and main-data window as in the linear decode.
C3_SeekEqualsLinear ==
    (lastOp = "Read" /\ fromSeek >= 0 /\ fromSeek < Len(d.frameStarts))
        => /\ lastErr = "nil"
           /\ lastN = BytesPerFrame =>
                 /\ Len(lastOut) = 1
                 /\ lastOut[1].lo = 0 /\ lastOut[1].hi = BytesPerFrame
                 /\ fromSeek < Len(LinearDecode(src.data).blocks)
                 /\ SameWindow(lastOut[1].blk,
                               LinearDecode(src.data).blocks[fromSeek + 1])

\* C4: Read returns io.EOF exactly when its frame read failed with EOF or
\* UnexpectedEOF, then the buffer is empty and (no Seek so far) every byte of
\* the decoded frames has been delivered; a frame read that failed otherwise
\* is returned as that error.
C4_ReadEOF ==
    lastOp = "Read" =>
        /\ lastErr = "EOF" <=>
              (frlog # <<>> /\ LastOf(frlog).err \in {"EOF", "UnexpectedEOF"})
        /\ lastErr = "EOF" =>
              /\ BufLen(d.buf) = 0
              /\ nseeks = 0 => total = BytesPerFrame * Len(declog)
        /\ (frlog # <<>> /\ LastOf(frlog).err \in {"Unsupported", "Malformed"})
              => lastErr = LastOf(frlog).err

C4_Witness ==
    /\ lastOp = "Read" /\ lastErr = "EOF" /\ nseeks = 0
    /\ LastOf(frlog).err = "UnexpectedEOF"
    /\ total = BytesPerFrame * 2

\* C5: when n valid frames are followed by a malformed or unsupported
\* frame, the first error any call reports comes after n*4608 bytes of PCM,
\* whether or not the source can seek.
C5_AllDeliveredBeforeError ==
    (TailIsBad /\ nseeks = 0 /\ nerrs <= 1 /\ lastErr # "nil")
        => total = BytesPerFrame * inp.n

\* What the code does in the case of C5: on a source that cannot seek the
\* first error a Read reports is that of the bad frame and comes after the
\* n*4608 bytes of the n valid frames; on a source that can seek NewDecoder
\* returns that error and no decoder, so no PCM is delivered.
DeliveredBeforeErrorUnlessSeekable ==
    /\ (TailIsBad /\ ~seekable /\ lastOp = "Read" /\ lastErr # "nil" /\ nerrs = 1)
          => /\ lastErr = TailErr
             /\ total = BytesPerFrame * inp.n
             /\ Len(declog) = inp.n
             /\ \A i \in 1..inp.n : declog[i].si = SideInfoBytes(inp.mdb[i])
    /\ (TailIsBad /\ ~seekable /\ lastOp = "Read" /\ nerrs = 0)
          => lastErr = "nil" /\ lastN > 0
    /\ (TailIsBad /\ seekable /\ lastOp # "none")
          => status = "failed" /\ lastErr = TailErr /\ total = 0

\* C6: Length is -1 on a source that cannot seek; otherwise it is 4608 times
\* the frames the pre-scan read, 4608 times the recorded frame starts, and the
\* bytes the Reads have delivered when one returns io.EOF with no Seek before.
C6_Length ==
    status = "open" =>
        /\ ~seekable => Length(d) = -1
        /\ seekable =>
              /\ Length(d) = BytesPerFrame * scanned
              /\ Length(d) = BytesPerFrame * Len(d.frameStarts)
              /\ (nseeks = 0 /\ lastOp = "Read" /\ lastErr = "EOF") => total = Length(d)

C6_Witness ==
    /\ status = "open" /\ seekable /\ nseeks = 0
    /\ lastOp = "Read" /\ lastErr = "EOF"
    /\ Length(d) = BytesPerFrame * MaxFrames /\ total = Length(d)

\* C10: with an ID3v2 tag in front, the header search of NewDecoder starts at
\* byte 10 + size (at byte 0 without a tag), and the frames decoded up to the
\* first failed frame read, and that failure, are those of the linear decode
\* of the input without the tag.
C10_TagTransparent ==
    /\ (lastOp # "none" /\ searchAt # -1)
          => searchAt = IF inp.tag = "id3"
                        THEN 10 + TagSize(SubSeq(Stream(inp), 7, 10))
                        ELSE 0
    /\ (inp.tag = "id3" /\ status = "failed")
          => lastErr = NewDecoderOf(BodyBytes(inp), seekable).err
    /\ (inp.tag = "id3" /\ nseeks = 0 /\ lastOp = "Read" /\ lastErr # "nil" /\ nerrs = 1)
          => /\ declog = LinearDecode(BodyBytes(inp)).blocks
             /\ LastOf(frlog).err = LinearDecode(BodyBytes(inp)).err

C10_Witness ==
    /\ inp.tag = "id3" /\ nseeks = 0 /\ lastOp = "Read" /\ lastErr = "EOF"
    /\ searchAt = 140
    /\ Len(declog) = MaxFrames

----------------------------------------------------------------------------
(* readHuffman for one granule/channel, one action per loop iteration.  The   *)
(* cursor is its bit position pos on a buffer of vecBits bits; a read at the  *)
(* end of the buffer returns zeros and leaves the cursor (Bits.Bit).  The     *)
(* inputs are granules whose big-value codewords all have bigBits bits and   *)
(* whose count1 codewords all have quadBits bits.  lo..hi is the range of the *)
(* indices of is[gr][ch] used so far.  The scale factors before the call    *)
(* took sfBits bits from bit part2Start on.                                   *)

HuffSfreq == 1
HuffPart2Start == 64

HuffBigValues == {0, 1, 288, 289}
HuffPart23 == {0, 1, 40, 4095}
HuffSfBits == {0, 5}
HuffRegions == { <<0, 0, 0>>, <<15, 7, 0>>, <<7, 13, 1>> }
HuffTables == { <<1, 1, 1>>, <<4, 1, 1>> }
HuffQuadBits == {1, 6}
HuffVecBytes == {2, 600}

HuffInputs ==
    { [g |-> [Part2_3Length |-> p, BigValues |-> bv, Region0Count |-> rg[1],
              Region1Count |-> rg[2], WinSwitchFlag |-> rg[3], BlockType |-> 2 * rg[3],
              TableSelect |-> ts, Count1TableSelect |-> 0],
       sfBits |-> sb, bigBits |-> 3, quadBits |-> qb, vecBits |-> 8 * vb] :
        p \in HuffPart23, bv \in HuffBigValues, rg \in HuffRegions, ts \in HuffTables,
        sb \in HuffSfBits, qb \in HuffQuadBits, vb \in HuffVecBytes }

\* huffmanDecode(m, table_num) on a codeword of n bits: [err, pos].  Tables 4
\* and 14 are reserved.
huffmanDecode(pos, vecBits, table_num, n) ==
    IF table_num = 4 \/ table_num = 14 THEN [err |-> "Malformed", pos |-> pos]
    ELSE [err |-> "nil", pos |-> IF pos >= vecBits THEN pos ELSE Min(pos + n, vecBits)]

\* the use of is[gr][ch][k]
Touch(h, k) == [h EXCEPT !.lo = Min(@, k), !.hi = Max(@, k)]

InRange(k) == 0 <= k /\ k < SamplesPerGr

\* the call readHuffman(m, header, sideInfo, mainData, part_2_start, gr, ch)
HuffEnter ==
    /\ hz.pc = "call"
    /\ \E rs \in {RegionStarts(hz.in.g, HuffSfreq)} :
         hz' = IF hz.in.g.Part2_3Length = 0
               THEN [hz EXCEPT !.pc = "done", !.lo = 0, !.hi = SamplesPerGr - 1]
               ELSE IF rs.err # "nil" THEN [hz EXCEPT !.pc = "error"]
               ELSE [hz EXCEPT !.pc = "big", !.r1 = rs.r1, !.r2 = rs.r2,
                               !.bitEnd = hz.part2Start + hz.in.g.Part2_3Length - 1]
    /\ UNCHANGED <<streamVars, sy, hc, rv, sp, ut>>

\* one iteration of the big_values loop
HuffBigPair ==
    /\ hz.pc = "big"
    /\ hz.isPos < hz.in.g.BigValues * 2
    /\ \E r \in {huffmanDecode(hz.pos, hz.in.vecBits,
                               IF hz.isPos < hz.r1 THEN hz.in.g.TableSelect[1]
                               ELSE IF hz.isPos < hz.r2 THEN hz.in.g.TableSelect[2]
                               ELSE hz.in.g.TableSelect[3],
                               hz.in.bigBits)} :
         hz' = IF r.err # "nil" THEN [hz EXCEPT !.pc = "error"]
               ELSE IF ~InRange(hz.isPos)
               THEN [Touch(hz, hz.isPos) EXCEPT !.pc = "panic", !.pos = r.pos]
               ELSE IF ~InRange(hz.isPos + 1)
               THEN [Touch(hz, hz.isPos + 1) EXCEPT !.pc = "panic", !.pos = r.pos]
               ELSE [Touch(Touch(hz, hz.isPos), hz.isPos + 1) EXCEPT
                         !.pos = r.pos, !.isPos = hz.isPos + 2]
    /\ UNCHANGED <<streamVars, sy, hc, rv, sp, ut>>

\* the end of the big_values loop: is_pos := big_values * 2
HuffBigDone ==
    /\ hz.pc = "big"
    /\ ~(hz.isPos < hz.in.g.BigValues * 2)
    /\ hz' = [hz EXCEPT !.pc = "count1", !.isPos = hz.in.g.BigValues * 2]
    /\ UNCHANGED <<streamVars, sy, hc, rv, sp, ut>>

\* one iteration of the count1 loop: up to four values, stopping at is_pos 576
HuffCount1Quad ==
    /\ hz.pc = "count1"
    /\ hz.isPos <= 572 /\ hz.pos <= hz.bitEnd
    /\ \E r \in {huffmanDecode(hz.pos, hz.in.vecBits,
                               hz.in.g.Count1TableSelect + 32, hz.in.quadBits)} :
       \E n \in {Min(4, SamplesPerGr - hz.isPos)} :
         hz' = IF r.err # "nil" THEN [hz EXCEPT !.pc = "error"]
               ELSE IF ~InRange(hz.isPos)
               THEN [Touch(hz, hz.isPos) EXCEPT !.pc = "panic", !.pos = r.pos]
               ELSE [Touch(Touch(hz, hz.isPos), hz.isPos + n - 1) EXCEPT
                         !.pos = r.pos, !.isPos = hz.isPos + n]
    /\ UNCHANGED <<streamVars, sy, hc, rv, sp, ut>>

\* after the count1 loop: roll back an overshoot, set count1, zero the rest,
\* set the cursor
HuffFinish ==
    /\ hz.pc = "count1"
    /\ ~(hz.isPos <= 572 /\ hz.pos <= hz.bitEnd)
    /\ \E p \in {IF hz.pos > hz.bitEnd + 1 THEN hz.isPos - 4 ELSE hz.isPos} :
         hz' = IF p >= SamplesPerGr THEN [hz EXCEPT !.pc = "done", !.count1 = p,
                                                    !.isPos = p, !.pos = hz.bitEnd + 1]
               ELSE IF ~InRange(p)
               THEN [Touch(hz, p) EXCEPT !.pc = "panic", !.count1 = p, !.isPos = p]
               ELSE [Touch(Touch(hz, p), SamplesPerGr - 1) EXCEPT
                         !.pc = "done", !.count1 = p, !.isPos = SamplesPerGr,
                         !.pos = hz.bitEnd + 1]
    /\ UNCHANGED <<streamVars, sy, hc, rv, sp, ut>>

NoInput == [n |-> 0, mdb |-> <<>>, tail |-> "clean", tag |-> "none"]

\* the stream-level machine at rest
StreamIdle ==
    /\ inp = NoInput /\ seekable = FALSE /\ src = NewSource(<<>>)
    /\ status = "idle" /\ d = NewD
    /\ lastOp = "none" /\ lastErr = "nil" /\ lastN = 0 /\ lastOut = <<>>
    /\ frlog = <<>> /\ total = 0 /\ declog = <<>>
    /\ nerrs = 0 /\ nseeks = 0 /\ scanned = 0
    /\ pend = -1 /\ fromSeek = -1 /\ searchAt = -1

InitHuff ==
    /\ StreamIdle
    /\ sy = SyIdle /\ hc = HcIdle /\ rv = RvIdle /\ sp = SpIdle /\ ut = UtIdle
    /\ hz \in { [pc |-> "call", in |-> i, part2Start |-> HuffPart2Start,
                 pos |-> HuffPart2Start + i.sfBits, isPos |-> 0,
                 r1 |-> 0, r2 |-> 0, bitEnd |-> 0, count1 |-> 0,
                 lo |-> SamplesPerGr, hi |-> -1] : i \in HuffInputs }

NextHuff == HuffEnter \/ HuffBigPair \/ HuffBigDone \/ HuffCount1Quad \/ HuffFinish

SpecHuff == InitHuff /\ [][NextHuff]_vars

\* C2: every index of is[gr][ch] that readHuffman uses is in 0..575, for all
\* the field values the side info can carry, and the call returns.
C2_HuffmanIndexInRange ==
    /\ hz.pc # "panic"
    /\ hz.hi >= 0 => (0 <= hz.lo /\ hz.hi < SamplesPerGr)

----------------------------------------------------------------------------
(* Frame.Decode, one action per subbandSynthesis call.  The samples a call    *)
(* converts are the integers int(sum * 32767); they are drawn from families   *)
(* [base, step]: sample 32*ss+i of the call is base + step * (32*ss+i).  w is *)
(* the set of indices of out written so far, lastW that of the last call.     *)

Granules == 2

SampFamilies ==
    { [base |-> 0, step |-> 0],
      [base |-> 32467, step |-> 1],
      [base |-> -32467, step |-> -1],
      [base |-> 1000000000, step |-> 0],
      [base |-> -1000000000, step |-> -3] }

Samp(fam, ss, i) == fam.base + fam.step * (32 * ss + i)

\* a sample that is not saturated
NoClamp(samp) == samp

\* the saturation of subbandSynthesis
Clamp(samp) == IF samp > 32767 THEN 32767 ELSE IF samp < -32767 THEN -32767 ELSE samp

\* the conversion int16(samp): the low 16 bits, as a signed number
Int16(samp) == ((samp + 32768) % 65536) - 32768

\* byte(s) and byte(s >> 8)
LowByte(s) == s % 256

HighByte(s) == (s \div 256) % 256

\* the offset of granule gr halved
GranuleBaseHalf(gr) == SamplesPerGr * 2 * gr

\* the offset of out[consts.SamplesPerGr*4*gr:] in out
GranuleBase(gr) == SamplesPerGr * 4 * gr

\* the slots of a channel without the duplication of a single channel
SlotsOfChannel(nch, ch) == IF ch = 0 THEN {0, 1} ELSE {2, 3}

\* the bytes of the 4-byte sample that subbandSynthesis writes for channel ch
Slots(nch, ch) == IF nch = 1 THEN {0, 1, 2, 3} ELSE IF ch = 0 THEN {0, 1} ELSE {2, 3}

\* the indices of its slice that subbandSynthesis(gr, ch, out) writes
SynthIndices(nch, ch) ==
    { 4 * (32 * ss + i) + c : ss \in 0..17, i \in 0..31, c \in Slots(nch, ch) }

\* the byte subbandSynthesis writes at index j of its slice
SynthByte(fam, j) ==
    LET k == j \div 4
        s == Int16(Clamp(Samp(fam, k \div 32, k % 32)))
    IN  IF j % 2 = 0 THEN LowByte(s) ELSE HighByte(s)

\* len(out) of a slice kept as a function on 0 .. len-1
OutLen(out) == Cardinality(DOMAIN out)

\* out := make([]byte, f.header.BytesPerFrame()); gr, ch := 0, 0
SynthStart ==
    /\ sy.pc = "call"
    /\ sy' = [sy EXCEPT !.pc = "run", !.out = [j \in 0..(BytesPerFrame - 1) |-> 0]]
    /\ UNCHANGED <<streamVars, hz, hc, rv, sp, ut>>

\* f.subbandSynthesis(gr, ch, out[consts.SamplesPerGr*4*gr:]), then the loop
\* steps of Decode up to the next call or the return
SynthCall ==
    /\ sy.pc = "run"
    /\ \E fam \in SampFamilies :
       \E base \in {GranuleBase(sy.gr)} :
       \E idx \in {SynthIndices(sy.nch, sy.ch)} :
         LET last == sy.ch = sy.nch - 1
             fits == \A j \in idx : base + j < OutLen(sy.out)
         IN  sy' = IF ~fits THEN [sy EXCEPT !.pc = "panic"]
                   ELSE [sy EXCEPT
                            !.out = [j \in DOMAIN sy.out |->
                                        IF j - base \in idx THEN SynthByte(fam, j - base)
                                        ELSE sy.out[j]],
                            !.w = @ \cup { base + j : j \in idx },
                            !.lastW = { base + j : j \in idx },
                            !.lastGr = sy.gr,
                            !.fam = [@ EXCEPT ![<<sy.gr, sy.ch>>] = fam],
                            !.ch = IF last THEN 0 ELSE sy.ch + 1,
                            !.gr = IF last THEN sy.gr + 1 ELSE sy.gr,
                            !.pc = IF last /\ sy.gr + 1 = Granules THEN "done" ELSE "run"]
    /\ UNCHANGED <<streamVars, hz, hc, rv, sp, ut>>

InitSynth ==
    /\ StreamIdle
    /\ hz = HzIdle /\ hc = HcIdle /\ rv = RvIdle /\ sp = SpIdle /\ ut = UtIdle
    /\ sy \in { [pc |-> "call", nch |-> n, gr |-> 0, ch |-> 0, out |-> <<>>,
                 w |-> {}, lastW |-> {}, lastGr |-> 0,
                 fam |-> [x \in (0..(Granules - 1)) \X (0..1) |->
                             [base |-> 0, step |-> 0]]] : n \in {1, 2} }

NextSynth == SynthStart \/ SynthCall

SpecSynth == InitSynth /\ [][NextSynth]_vars

\* the 16-bit little-endian sample at index j of out
Sample16(out, j) ==
    LET v == out[j] + 256 * out[j + 1] IN IF v >= 32768 THEN v - 65536 ELSE v

\* C7: a decoded frame is 4608 bytes; the call for granule gr writes only
\* indices in [2304*gr, 2304*gr + 2304), all of the form 4*(32*ss+i)+0..3, no
\* write is out of range, and after the frame every byte has been written.
C7_FrameBytes ==
    /\ sy.pc # "panic"
    /\ sy.pc \in {"run", "done"} =>
          /\ OutLen(sy.out) = 4608
          /\ sy.lastW \subseteq (2304 * sy.lastGr)..(2304 * sy.lastGr + 2303)
          /\ sy.w \subseteq 0..4607
    /\ sy.pc = "done" => sy.w = 0..4607

C7_Witness ==
    /\ sy.pc = "done" /\ sy.nch = 2 /\ sy.lastGr = 1
    /\ 4607 \in sy.lastW /\ 2304 \notin sy.lastW /\ Cardinality(sy.w) = 4608

\* C8: in the output of a single-channel frame the two bytes of the left slot
\* of every sample equal the two bytes of its right slot.
C8_MonoDuplicated ==
    (sy.nch = 1 /\ sy.pc \in {"run", "done"}) =>
        \A k \in 0..1151 :
            /\ sy.out[4 * k] = sy.out[4 * k + 2]
            /\ sy.out[4 * k + 1] = sy.out[4 * k + 3]
            /\ 4 * k \in sy.w <=> 4 * k + 2 \in sy.w

C8_Witness ==
    /\ sy.nch = 1 /\ sy.pc = "done"
    /\ sy.out[4600] # 0 /\ sy.out[4600] = sy.out[4602]

\* C9: every sample written lies in -32767..32767 and is the integer sample
\* saturated to that range, so the narrowing to 16 bits never wraps.
C9_Saturated ==
    sy.pc \in {"run", "done"} =>
        \A j \in sy.w :
            j % 2 = 0 =>
                LET s  == Sample16(sy.out, j)
                    gr == j \div 2304
                    k  == (j % 2304) \div 4
                    ch == IF sy.nch = 1 THEN 0 ELSE (j % 4) \div 2
                    x  == Samp(sy.fam[<<gr, ch>>], k \div 32, k % 32)
                IN  /\ -32767 <= s /\ s <= 32767
                    /\ x > 32767 => s = 32767
                    /\ x < -32767 => s = -32767
                    /\ (-32767 <= x /\ x <= 32767) => s = x

C9_Witness ==
    /\ sy.pc = "done"
    /\ Samp(sy.fam[<<1, 0>>], 17, 31) = 33042
    /\ Sample16(sy.out, 4604) = 32767
    /\ Samp(sy.fam[<<0, 0>>], 0, 0) < -32768
    /\ Sample16(sy.out, 0) = -32767

----------------------------------------------------------------------------
(* Header checks.  A state is either one 32-bit word (pc "word"), on which    *)
(* IsValid and then the checks of the two frame readers act, or a short byte  *)
(* source (pc "call"), on which readHeader acts.  With pre the source is the  *)
(* one skipTags leaves: its first three bytes read and pushed back.           *)

HeaderWords ==
    { <<b1, b2, b3, b4>> :
        b1 \in {255, 127}, b2 \in {223} \cup (224..255),
        b3 \in { 16 * i + 4 * f : i \in 0..15, f \in 0..3 },
        b4 \in {0, 1, 2, 3, 194} }

HdrPrefixes == { <<>>, <<0>>, <<255>>, <<7, 255, 0>> }

\* a valid header, one of free format, one with bitrate index 15, one of Layer II
HdrCores ==
    { <<255, 251, 20, 192>>, <<255, 251, 4, 192>>, <<255, 251, 244, 192>>,
      <<255, 253, 20, 192>> }

HdrTails == { <<>>, <<9, 9>> }

HeaderStreams ==
    { Take(p \o c \o t, Min(n, Len(p \o c \o t))) :
        p \in HdrPrefixes, c \in HdrCores, t \in HdrTails, n \in 0..9 }

\* the checks of frame.Read between the header and the side info: "nil" when
\* the frame goes on to sideinfo.Read
frameReadChecks(h) ==
    IF ID(h) = Version2_5 THEN "Unsupported"
    ELSE IF Layer(h) # Layer3 THEN "Unsupported"
    ELSE "nil"

\* the source readHeader is called on
HdrSource(x, pre) == IF pre THEN skipTags(NewSource(x)).s ELSE NewSource(x)

HdrStart(pc, h, x, pre) ==
    [pc |-> pc, h |-> h, data |-> x, pre |-> pre, s |-> HdrSource(x, pre),
     err |-> "nil", pos |-> 0, valid |-> FALSE, gate |-> "none", gateF |-> "none"]

\* header.IsValid() on the word
HdrIsValid ==
    /\ hc.pc = "word"
    /\ hc' = [hc EXCEPT !.pc = "checked", !.valid = IsValid(hc.h)]
    /\ UNCHANGED <<streamVars, hz, sy, rv, sp, ut>>

\* a frame read on a source that holds the valid word and two more bytes:
\* source.readNextFrame ends with UnexpectedEOF when it has reached the read of
\* the side info; and the checks of frame.Read on the same word
HdrGate ==
    /\ hc.pc = "checked" /\ hc.valid
    /\ \E r \in {readNextFrame(NewSource(hc.h \o <<0, 0>>), <<>>)} :
         hc' = [hc EXCEPT !.pc = "gated", !.gate = r.err,
                          !.gateF = frameReadChecks(hc.h)]
    /\ UNCHANGED <<streamVars, hz, sy, rv, sp, ut>>

\* h, pos, err := s.readHeader()
HdrRead ==
    /\ hc.pc = "call"
    /\ \E r \in {readHeader(hc.s)} :
         hc' = [hc EXCEPT !.pc = "read", !.err = r.err, !.pos = r.pos, !.h = r.h,
                          !.s = r.s]
    /\ UNCHANGED <<streamVars, hz, sy, rv, sp, ut>>

InitHeader ==
    /\ StreamIdle
    /\ hz = HzIdle /\ sy = SyIdle /\ rv = RvIdle /\ sp = SpIdle /\ ut = UtIdle
    /\ hc \in { HdrStart("word", w, <<>>, FALSE) : w \in HeaderWords }
           \cup { HdrStart("call", <<0, 0, 0, 0>>, x, FALSE) : x \in HeaderStreams }
           \cup { HdrStart("call", <<0, 0, 0, 0>>, x, TRUE) :
                    x \in { y \in HeaderStreams : Len(y) >= 3 } }

NextHeader == HdrIsValid \/ HdrGate \/ HdrRead

SpecHeader == InitHeader /\ [][NextHeader]_vars

\* bit k (31 the most significant) of the word kept as four bytes
HeaderBit(h, k) == (h[4 - (k \div 8)] \div (2 ^ (k % 8))) % 2

\* the number in bits hi .. lo of the word
RECURSIVE HeaderField(_, _, _)
HeaderField(h, hi, lo) ==
    IF hi < lo THEN 0 ELSE HeaderBit(h, lo) + 2 * HeaderField(h, hi, lo + 1)

\* the offset of the first valid 4-byte window of x at or after p, or -1
RECURSIVE FirstValidAt(_, _)
FirstValidAt(x, p) ==
    IF p + 4 > Len(x) THEN -1
    ELSE IF IsValid(SubSeq(x, p + 1, p + 4)) THEN p
    ELSE FirstValidAt(x, p + 1)

\* C11: a frame whose header has a version other than MPEG-1 or a layer other
\* than Layer III is rejected with an error by the frame reader
\* (source.readNextFrame and frame.Read) and does not reach the side info.
C11_RejectsNonMpeg1Layer3 ==
    (hc.pc = "gated" /\ (ID(hc.h) # Version1 \/ Layer(hc.h) # Layer3))
        => hc.gate = "Unsupported" /\ hc.gateF = "Unsupported"

\* What source.readNextFrame does in the case of C11: it rejects every such
\* frame, and a frame of MPEG-1 Layer III that is not of free format reaches
\* the read of the side info.
NextFrameRejectsNonMpeg1Layer3 ==
    hc.pc = "gated" =>
        /\ (ID(hc.h) # Version1 \/ Layer(hc.h) # Layer3) => hc.gate = "Unsupported"
        /\ (ID(hc.h) = Version1 /\ Layer(hc.h) = Layer3 /\ BitrateIndex(hc.h) # 0)
              => hc.gate = "UnexpectedEOF" /\ hc.gateF = "nil"

\* C12: IsValid(h) is true exactly when bits 31..21 are ones, the version is
\* not the reserved one, the layer is not the reserved one, the bitrate index
\* is in 1..14, the sampling frequency index is in 0..2 and the emphasis is
\* not 2.
C12_IsValidIffBitrate1To14 ==
    hc.pc \in {"checked", "gated"} =>
        (hc.valid <=>
            /\ HeaderField(hc.h, 31, 21) = 2047
            /\ HeaderField(hc.h, 20, 19) # 1
            /\ HeaderField(hc.h, 18, 17) # 0
            /\ HeaderField(hc.h, 15, 12) \in 1..14
            /\ HeaderField(hc.h, 11, 10) \in 0..2
            /\ HeaderField(hc.h, 1, 0) # 2)

\* C12 with the bitrate index as the code tests it: IsValid(h) is true exactly
\* when bits 31..21 are ones, the version and the layer are not the reserved
\* ones, the bitrate index is not 15 (0, free format, passes), the sampling
\* frequency index is not 3 and the emphasis is not 2.
C12_IsValidIff ==
    hc.pc \in {"checked", "gated"} =>
        (hc.valid <=>
            /\ HeaderField(hc.h, 31, 21) = 2047
            /\ HeaderField(hc.h, 20, 19) # 1
            /\ HeaderField(hc.h, 18, 17) # 0
            /\ HeaderField(hc.h, 15, 12) \in 0..14
            /\ HeaderField(hc.h, 11, 10) \in 0..2
            /\ HeaderField(hc.h, 1, 0) # 2)

C12_Witness ==
    /\ hc.pc = "checked" /\ hc.valid
    /\ HeaderField(hc.h, 15, 12) = 0 /\ HeaderField(hc.h, 1, 0) = 3

\* C17: readHeader fails with EOF exactly when the source has no byte left,
\* with UnexpectedEOF when it has 1 to 3 bytes or ends during the scan (no
\* window of it is valid), and with the unsupported error exactly when the
\* accepted header has bitrate index 0.
C17_HeaderErrors ==
    hc.pc = "read" =>
        LET x == hc.data
            p == FirstValidAt(x, 0)
        IN  /\ hc.err = "EOF" <=> Len(x) = 0
            /\ hc.err = "UnexpectedEOF" <=> (Len(x) \in 1..3 \/ (Len(x) >= 4 /\ p = -1))
            /\ hc.err = "Unsupported" <=>
                  (p >= 0 /\ HeaderField(SubSeq(x, p + 1, p + 4), 15, 12) = 0)
            /\ hc.err \in {"nil", "EOF", "UnexpectedEOF", "Unsupported"}
            /\ hc.err = "nil" => hc.h = SubSeq(x, p + 1, p + 4)

C17_Witness ==
    /\ hc.pc = "read" /\ hc.err = "UnexpectedEOF" /\ hc.pre
    /\ Len(hc.data) = 9 /\ hc.s.rpos = 9

----------------------------------------------------------------------------
(* The bit reservoir.  Successive calls of maindata.Read as readNextFrame     *)
(* makes them: prev is the cursor of the frame read before, nil at the start  *)
(* and after a failed read (readFrame stores the nil frame).  The bytes of    *)
(* the call n are told apart by their values.                                 *)

MaxResFrames == 3

ResSizes == {10, 500, 1500, 1501}

\* values of main_data_begin, a field of 9 bits
ResOffsets == {0, 500, 511}

ResOwn(n, size) == [j \in 1..size |-> (n * 97 + j) % 251]

\* the last k bytes of v, all of v when it is shorter
LastBytes(v, k) == SubSeq(v, Len(v) - Min(k, Len(v)) + 1, Len(v))

RvStart ==
    [pc |-> "ready", n |-> 0, prev |-> <<>>, prior |-> <<>>, own |-> <<>>,
     size |-> 0, offset |-> 0, path |-> "none", err |-> "nil", recent |-> <<>>]

\* md, mdb, err := maindata.Read(s, prevM, h, si) of the next frame; recent is
\* the end (511 bytes) of the main data of the frames read since the start or
\* the last failure
RvRead(size, offset) ==
    /\ rv.pc # "idle" /\ rv.n < MaxResFrames
    /\ \E r \in {maindataRead(NewSource(ResOwn(rv.n, size)), rv.prev, size, offset)} :
         rv' = [pc     |-> IF r.err = "nil" THEN "read" ELSE "error",
                n      |-> rv.n + 1,
                prev   |-> IF r.err = "nil" THEN <<r.m>> ELSE <<>>,
                prior  |-> rv.prev,
                own    |-> ResOwn(rv.n, size),
                size   |-> size,
                offset |-> offset,
                path   |-> r.path,
                err    |-> r.err,
                recent |-> IF r.err = "nil"
                           THEN LastBytes(rv.recent \o ResOwn(rv.n, size), 511)
                           ELSE <<>>]
    /\ UNCHANGED <<streamVars, hz, sy, hc, sp, ut>>

InitReservoir ==
    /\ StreamIdle
    /\ hz = HzIdle /\ sy = SyIdle /\ hc = HcIdle /\ sp = SpIdle /\ ut = UtIdle
    /\ rv = RvStart

NextReservoir == \E size \in ResSizes, offset \in ResOffsets : RvRead(size, offset)

SpecReservoir == InitReservoir /\ [][NextReservoir]_vars

\* C13: when frame i is read after successfully read frames and its
\* main_data_begin B_i is not larger than the prior reservoir, the cursor of
\* frame i holds the last B_i bytes of the prior reservoir followed by the
\* frame's own main_data_size_i bytes, at bit position 0; for the first frame
\* (no prior reservoir) it holds the frame's own bytes.
C13_ReservoirLaw ==
    (rv.pc = "read" /\ (rv.prior = <<>> \/ rv.offset <= Len(rv.prior[1].vec))) =>
        /\ rv.path = "normal"
        /\ rv.prev[1].pos = 0
        /\ Len(rv.own) = rv.size
        /\ rv.prev[1].vec =
              IF rv.prior = <<>> THEN rv.own
              ELSE SubSeq(rv.prior[1].vec, Len(rv.prior[1].vec) - rv.offset + 1,
                          Len(rv.prior[1].vec)) \o rv.own

C13_Witness ==
    /\ rv.pc = "read" /\ rv.prior # <<>> /\ rv.offset = 500 /\ rv.size = 10
    /\ Len(rv.prior[1].vec) = 1500 /\ Len(rv.prev[1].vec) = 510

\* C14: after each successfully read frame the reservoir kept for the next
\* frame holds at least the last 511 bytes of the main data read so far (all
\* of it when that is less than 511 bytes).
C14_RetainsLast511 ==
    rv.pc = "read" =>
        /\ Len(rv.prev[1].vec) >= Len(rv.recent)
        /\ LastBytes(rv.prev[1].vec, Len(rv.recent)) = rv.recent

\* C15: after any sequence of frame reads, those of the insufficient-reservoir
\* path included, the reservoir kept holds at most 1500 + 511 = 2011 bytes.
C15_ReservoirBound ==
    rv.prev # <<>> => Len(rv.prev[1].vec) <= 1500 + 511

C15_Witness ==
    /\ rv.pc = "read" /\ rv.path = "insufficient" /\ Len(rv.prev[1].vec) = 2010

----------------------------------------------------------------------------
(* Further properties of the stream model and of the Huffman read. *)

\* C16: the startPosition readHeader returns is the absolute byte offset in
\* the input of the first byte of the accepted header, for every frame of the
\* stream, those after a 3-byte prefix that skipTags pushed back included:
\* the frame starts the pre-scan records are the offsets of the frames.
C16_StartPositionAbsolute ==
    (status = "open" /\ seekable) =>
        \A i \in 1..Len(d.frameStarts) :
            d.frameStarts[i] =
                Len(TagBytes(inp.tag)) + Len(FramesBytes(0, SubSeq(inp.mdb, 1, i - 1)))

\* C18: after the Huffman read of a granule/channel 0 <= count1 <= 576 and
\* big_values * 2 <= count1; the roll-back of the last 4 samples never makes
\* count1 negative (count1 is stored before the rest is zeroed).
C18_Count1Range ==
    /\ hz.pc = "done" =>
          /\ 0 <= hz.count1 /\ hz.count1 <= SamplesPerGr
          /\ hz.in.g.BigValues * 2 <= hz.count1
    /\ hz.pc = "panic" => hz.count1 >= 0

\* C19: after the scale-factor and Huffman read the bit cursor is at
\* part_2_start + part2_3_length, for every value of part2_3_length, 0
\* included.
C19_CursorAtPartEnd ==
    hz.pc = "done" => hz.pos = hz.part2Start + hz.in.g.Part2_3Length

----------------------------------------------------------------------------
(* The side info.  The bytes are written field by field from chosen values,   *)
(* every granule/channel with values of its own, and readSideInfo is run on   *)
(* a source that holds them and one byte more.                                *)

\* the num bits of v, the most significant first
RECURSIVE BitsOf(_, _)
BitsOf(v, num) == IF num = 0 THEN <<>> ELSE BitsOf(v \div 2, num - 1) \o <<v % 2>>

\* the bytes of a bit string whose length is a multiple of 8
RECURSIVE PackBits(_)
PackBits(bs) ==
    IF Len(bs) < 8 THEN <<>>
    ELSE <<128 * bs[1] + 64 * bs[2] + 32 * bs[3] + 16 * bs[4]
             + 8 * bs[5] + 4 * bs[6] + 2 * bs[7] + bs[8]>> \o PackBits(Drop(bs, 8))

\* what a granule/channel carries for the window switching: with ws = 1 the
\* block type and the mixed flag, with ws = 0 the two region counts
GranChoices ==
    { [ws |-> 1, bt |-> bt, mx |-> mx, r0 |-> 0, r1 |-> 0] : bt \in {1, 2}, mx \in {0, 1} }
        \cup { [ws |-> 0, bt |-> 0, mx |-> 0, r0 |-> r[1], r1 |-> r[2]] :
                 r \in { <<15, 7>>, <<5, 2>> } }

\* the 59 bits of granule/channel number k (from 1) with the choice c
GranBits(k, c) ==
    BitsOf(1000 + k, 12) \o BitsOf(300 + k, 9) \o BitsOf(200 + k, 8) \o BitsOf(10 + k, 4)
        \o BitsOf(c.ws, 1)
        \o (IF c.ws = 1
            THEN BitsOf(c.bt, 2) \o BitsOf(c.mx, 1) \o BitsOf(k + 1, 5) \o BitsOf(k + 5, 5)
                   \o BitsOf(1, 3) \o BitsOf(2, 3) \o BitsOf(k, 3)
            ELSE BitsOf(k + 1, 5) \o BitsOf(k + 5, 5) \o BitsOf(k + 9, 5)
                   \o BitsOf(c.r0, 4) \o BitsOf(c.r1, 3))
        \o BitsOf(1, 1) \o BitsOf(0, 1) \o BitsOf(1, 1)

\* the bits of the side info of nch channels with the choices cs
SideBits(nch, cs) ==
    LET RECURSIVE grs(_)
        grs(k) == IF k > Len(cs) THEN <<>> ELSE GranBits(k, cs[k]) \o grs(k + 1)
    IN  BitsOf(300, 9) \o (IF nch = 1 THEN BitsOf(21, 5) ELSE BitsOf(5, 3))
            \o [j \in 1..(4 * nch) |-> IF j % 3 = 0 THEN 0 ELSE 1] \o grs(1)

SideInputs ==
    { [nch |-> 1, cs |-> <<a, b>>] : a \in GranChoices, b \in GranChoices }
        \cup { [nch |-> 2, cs |-> <<a, b, c, e>>] :
                 a \in GranChoices, b \in GranChoices, c \in GranChoices,
                 e \in GranChoices }

\* si, err := src.readSideInfo(header)
SideRead ==
    /\ sp.pc = "call"
    /\ \E r \in {readSideInfo(NewSource(PackBits(SideBits(sp.in.nch, sp.in.cs)) \o <<9>>),
                              <<255, 251, 20, IF sp.in.nch = 1 THEN 192 ELSE 0>>)} :
         sp' = [sp EXCEPT !.pc = "read", !.err = r.err, !.info = r.info,
                          !.rpos = r.s.rpos]
    /\ UNCHANGED <<streamVars, hz, sy, hc, rv, ut>>

InitSide ==
    /\ StreamIdle
    /\ hz = HzIdle /\ sy = SyIdle /\ hc = HcIdle /\ rv = RvIdle /\ ut = UtIdle
    /\ sp \in { [pc |-> "call", in |-> i, err |-> "nil", info |-> <<>>, rpos |-> 0] :
                  i \in SideInputs }

NextSide == SideRead

SpecSide == InitSide /\ [][NextSide]_vars

\* C20: the side-info parse consumes 136 bits (17 bytes) of a mono frame and
\* 256 bits (32 bytes) of a stereo frame whatever the win_switch_flags; with
\* win_switch_flag = 1 region0_count is 8 if block_type = 2 and
\* mixed_block_flag = 0, else 7, and region1_count = 20 - region0_count; with
\* win_switch_flag = 0 block_type is 0 and region0_count (4 bits) and
\* region1_count (3 bits) are those of the stream.
C20_SideInfoParse ==
    sp.pc = "read" =>
        /\ sp.err = "nil"
        /\ sp.rpos = (IF sp.in.nch = 1 THEN 17 ELSE 32)
        /\ sp.info[1].used = (IF sp.in.nch = 1 THEN 136 ELSE 256)
        /\ sp.info[1].used = Len(SideBits(sp.in.nch, sp.in.cs))
        /\ sp.info[1].MainDataBegin = 300
        /\ Len(sp.info[1].gs) = 2 * sp.in.nch
        /\ \A k \in 1..Len(sp.in.cs) :
             LET g == sp.info[1].gs[k]
                 c == sp.in.cs[k]
             IN  /\ g.Part2_3Length = 1000 + k /\ g.BigValues = 300 + k
                 /\ g.WinSwitchFlag = c.ws
                 /\ g.Preflag = 1 /\ g.ScalefacScale = 0 /\ g.Count1TableSelect = 1
                 /\ c.ws = 1 =>
                      /\ g.BlockType = c.bt /\ g.MixedBlockFlag = c.mx
                      /\ g.Region0Count = (IF c.bt = 2 /\ c.mx = 0 THEN 8 ELSE 7)
                      /\ g.Region1Count = 20 - g.Region0Count
                 /\ c.ws = 0 =>
                      /\ g.BlockType = 0
                      /\ g.Region0Count = c.r0 /\ g.Region1Count = c.r1

C20_Witness ==
    /\ sp.pc = "read" /\ sp.in.nch = 2
    /\ sp.in.cs[1].ws = 1 /\ sp.in.cs[1].bt = 2 /\ sp.in.cs[1].mx = 0
    /\ sp.in.cs[4].ws = 0 /\ sp.in.cs[4].r0 = 15
    /\ sp.info[1].gs[1].Region0Count = 8 /\ sp.info[1].gs[4].Region0Count = 15

----------------------------------------------------------------------------
(* Units.  One call, or a short run of calls, of a function of the decoder    *)
(* that works on values alone, on inputs drawn from small families.           *)

\* buffers of 0 to 5 bytes; the first four bytes are those of TestBits
BitVecs ==
    { Take(<<85, 170, 204, 51, 129>>, k) : k \in 0..5 } \cup { <<255, 1, 128>> }

\* a cursor on a buffer, at a position up to 9 bits past the end (SetPos)
BitsInputs ==
    UNION { { [pc |-> "bits", vec |-> v, p0 |-> p, reads |-> 0, num |-> 0, val |-> 0,
               b |-> SetPos(NewBits(v), p), from |-> -1] : p \in 0..(8 * Len(v) + 9) } :
            v \in BitVecs }

\* b.Bits(num), twice in a row at most
UBits(num) ==
    /\ ut.pc = "bits" /\ ut.reads < 2
    /\ ut.reads = 1 => num \in {0, 1, 8, 12, 24}
    /\ \E r \in {BitsRead(ut.b, num)} :
         ut' = [ut EXCEPT !.reads = ut.reads + 1, !.p0 = BitPos(ut.b), !.num = num,
                          !.val = r.val, !.b = r.b, !.from = BitsSlice(ut.b, num)]
    /\ UNCHANGED <<streamVars, hz, sy, hc, rv, sp>>

\* b.Bit()
UBit ==
    /\ ut.pc = "bits" /\ ut.reads = 0
    /\ \E r \in {BitRead(ut.b)} :
         ut' = [ut EXCEPT !.pc = "bit", !.reads = 1, !.num = 1, !.val = r.val,
                          !.b = r.b, !.from = r.idx]
    /\ UNCHANGED <<streamVars, hz, sy, hc, rv, sp>>

\* the kinds of block of a granule: long, short, mixed
SclfKinds ==
    { [WinSwitchFlag |-> 0, BlockType |-> 0, MixedBlockFlag |-> 0],
      [WinSwitchFlag |-> 1, BlockType |-> 2, MixedBlockFlag |-> 0],
      [WinSwitchFlag |-> 1, BlockType |-> 2, MixedBlockFlag |-> 1] }

\* a single-channel frame before its scale factors are read: scfsi, and per
\* granule the kind of block and scalefac_compress (slen 0/0, 3/0, 1/1, 4/3);
\* part2_3_length is 0, so readHuffman leaves the cursor where it is
SclfInputs ==
    { [pc |-> "sclf", gr |-> 0,
       info |-> [nch |-> 1, Scfsi |-> sc,
                 gs |-> << [Part2_3Length |-> 0, ScalefacCompress |-> c0] @@ k0,
                           [Part2_3Length |-> 0, ScalefacCompress |-> c1] @@ k1 >>],
       b |-> NewBits([j \in 1..32 |-> (37 * j + 11) % 256]),
       l |-> <<Fill(21, 0), Fill(21, 0)>>, at |-> <<0, 0, 0>>] :
        sc \in [1..4 -> {0, 1}], c0 \in {4, 15}, c1 \in {0, 5, 15},
        k0 \in SclfKinds, k1 \in SclfKinds }

\* the scale factors of granule ut.gr, channel 0, as readMainL3 reads them
USclf ==
    /\ ut.pc = "sclf" /\ ut.gr < 2
    /\ \E r \in {ReadFields(ut.b, ScalefacWidths(ut.info, ut.gr, 0))} :
         ut' = [ut EXCEPT !.gr = ut.gr + 1, !.b = r.b,
                          !.l[ut.gr + 1] = ScalefacLOf(ut.info, ut.gr, 0, r.vals, ut.l[1]),
                          !.at[ut.gr + 2] = BitPos(r.b)]
    /\ UNCHANGED <<streamVars, hz, sy, hc, rv, sp>>

\* a frame in its decode: the overlap store of both channels, the samples of
\* the granule of either channel, and the values the IMDCT will return
HybInputs ==
    { [pc |-> "hyb", chs |-> {},
       is |-> [c \in 1..2 |-> [n \in 1..SamplesPerGr |-> ((n * a + c) % 7) - 3]],
       store |-> [c \in 1..2 |-> [n \in 1..SamplesPerGr |-> IF z THEN 0 ELSE ((n + 5 * c) % 11) - 5]],
       store0 |-> [c \in 1..2 |-> [n \in 1..SamplesPerGr |-> IF z THEN 0 ELSE ((n + 5 * c) % 11) - 5]],
       raw |-> [sb \in 1..32 |-> [i \in 1..36 |-> (((sb * 36 + i) * a) % 13) - 6]]] :
        a \in {1, 2, 3}, z \in BOOLEAN }

\* f.hybridSynthesis(gr, ch) for one channel of the frame
UHybrid(ch) ==
    /\ ut.pc = "hyb" /\ ch \notin ut.chs
    /\ \E r \in {hybridSynthesis(ut.is[ch + 1], ut.store[ch + 1], ut.raw)} :
         ut' = [ut EXCEPT !.chs = ut.chs \cup {ch}, !.is[ch + 1] = r.is,
                          !.store[ch + 1] = r.st]
    /\ UNCHANGED <<streamVars, hz, sy, hc, rv, sp>>

\* the samples of a granule, all different, some negative, one zero
GranuleSamples == { [n \in 1..SamplesPerGr |-> a * (n - 300)] : a \in {1, -2} }

\* a granule before reorder: the block kind (with a window switch to a block
\* type other than 2 as well), count1 and the sampling frequency
ReorderInputs ==
    { [pc |-> "reorder", is0 |-> is, is |-> is, g |-> k, count1 |-> c, sfreq |-> sf,
       times |-> 0] :
        is \in GranuleSamples,
        k \in SclfKinds \cup { [WinSwitchFlag |-> 1, BlockType |-> 3, MixedBlockFlag |-> 1] },
        c \in {0, 1, 36, 48, 100, 400, 575, 576}, sf \in 0..2 }

\* f.reorder(gr, ch)
UReorder ==
    /\ ut.pc = "reorder" /\ ut.times = 0
    /\ ut' = [ut EXCEPT !.times = 1, !.is = reorder(ut.is, ut.g, ut.count1, ut.sfreq)]
    /\ UNCHANGED <<streamVars, hz, sy, hc, rv, sp>>

FinvInputs ==
    { [pc |-> "finv", is0 |-> is, is |-> is, times |-> 0] : is \in GranuleSamples }

\* f.frequencyInversion(gr, ch), up to three times on the same granule
UFreqInv ==
    /\ ut.pc = "finv" /\ ut.times < 3
    /\ ut' = [ut EXCEPT !.times = ut.times + 1, !.is = frequencyInversion(ut.is)]
    /\ UNCHANGED <<streamVars, hz, sy, hc, rv, sp>>

\* a granule before requantize: the block kind, count1 and the sampling
\* frequency
RequantInputs ==
    { [pc |-> "requant", g |-> k, count1 |-> c, sfreq |-> sf, times |-> 0,
       sfbs |-> [l |-> {}, s |-> {}]] :
        k \in SclfKinds, c \in {0, 1, 36, 37, 100, 330, 384, 418, 419, 575, 576},
        sf \in 0..2 }

\* f.requantize(gr, ch)
URequantize ==
    /\ ut.pc = "requant" /\ ut.times = 0
    /\ ut' = [ut EXCEPT !.times = 1, !.sfbs = requantize(ut.g, ut.count1, ut.sfreq)]
    /\ UNCHANGED <<streamVars, hz, sy, hc, rv, sp>>

UnitInputs ==
    BitsInputs \cup SclfInputs \cup HybInputs \cup ReorderInputs \cup FinvInputs
        \cup RequantInputs




InitUnits ==
    /\ StreamIdle
    /\ hz = HzIdle /\ sy = SyIdle /\ hc = HcIdle /\ rv = RvIdle /\ sp = SpIdle
    /\ ut \in UnitInputs

NextUnits ==
    \/ \E num \in 0..24 : UBits(num)
    \/ UBit
    \/ USclf
    \/ \E ch \in 0..1 : UHybrid(ch)
    \/ UReorder
    \/ UFreqInv
    \/ URequantize

SpecUnits == InitUnits /\ [][NextUnits]_vars

\* the number written by bits p .. p + num - 1 of vec, the most significant
\* first, a bit past the end of vec being 0
RECURSIVE FieldAt(_, _, _)
FieldAt(vec, p, num) ==
    IF num = 0 THEN 0
    ELSE LET k == p + num - 1
             bit == IF k \div 8 >= Len(vec) THEN 0
                    ELSE (vec[k \div 8 + 1] \div (2 ^ (7 - (k % 8)))) % 2
         IN  bit + 2 * FieldAt(vec, p, num - 1)

\* C22: with the cursor at bit p and 0 <= n <= 24, p + n <= 8 * len, Bits(n)
\* returns the number formed by bits p .. p+n-1 of the buffer, the most
\* significant first, and leaves the cursor at p + n; Bits(0) returns 0 and
\* leaves the cursor where it was.
C22_BitsField ==
    (ut.pc = "bits" /\ ut.reads > 0 /\ ut.p0 + ut.num <= 8 * Len(ut.vec)) =>
        /\ ut.val = FieldAt(ut.vec, ut.p0, ut.num)
        /\ BitPos(ut.b) = ut.p0 + ut.num
        /\ ut.num = 0 => (ut.val = 0 /\ BitPos(ut.b) = ut.p0)

\* the reads of TestBits after the four single bits: Bits(8) = 90 at bit 4,
\* then Bits(12) = 2764
C22_Witness ==
    /\ ut.pc = "bits" /\ ut.reads = 2 /\ ut.vec = <<85, 170, 204, 51>>
    /\ ut.p0 = 12 /\ ut.num = 12 /\ ut.val = 2764 /\ BitPos(ut.b) = 24

\* C23: at every cursor position, those past the end included, and for every
\* n in 0..24, Bits(n) and Bit() index the buffer inside its bounds only; a
\* read that starts at or beyond the end returns 0 and one that straddles the
\* end returns the bits there are followed by zero bits.
C23_BitsInBounds ==
    (ut.pc \in {"bits", "bit"} /\ ut.reads > 0) =>
        /\ ut.pc = "bits" => (ut.from = -1 \/ (0 <= ut.from /\ ut.from <= Len(ut.vec)))
        /\ ut.pc = "bit" => (ut.from = -1 \/ (0 <= ut.from /\ ut.from < Len(ut.vec)))
        /\ ut.p0 >= 8 * Len(ut.vec) => ut.val = 0
        /\ (ut.pc = "bits" /\ ut.p0 < 8 * Len(ut.vec))
              => ut.val = FieldAt(ut.vec, ut.p0, ut.num)
        /\ (ut.pc = "bit" /\ ut.p0 < 8 * Len(ut.vec)) => ut.val = FieldAt(ut.vec, ut.p0, 1)

C23_Witness ==
    /\ ut.pc = "bits" /\ ut.reads = 1 /\ ut.vec = <<255, 1, 128>>
    /\ ut.p0 = 15 /\ ut.num = 24 /\ ut.val = 12582912

\* C21: in a long-block granule 1 each of the four ranges of scale factors
\* (bands 0..5, 6..10, 11..15, 16..20) with scfsi = 1 is copied from granule 0
\* of the channel and takes no bits; every other range, and every range of
\* granule 0, is read with the widths slen1, slen1, slen2, slen2, so a
\* long-block granule 0 takes 11 * slen1 + 10 * slen2 bits.
C21_ScfsiCopy ==
    (ut.pc = "sclf" /\ ut.gr = 2) =>
        LET g   == ut.info.gs
            sl(gr, bd) == mpeg1ScalefacSizes[g[gr + 1].ScalefacCompress + 1][IF bd < 2 THEN 1 ELSE 2]
            long(gr) == ~(g[gr + 1].WinSwitchFlag = 1 /\ g[gr + 1].BlockType = 2)
            lo(bd) == <<0, 6, 11, 16>>[bd + 1]
            hi(bd) == <<5, 10, 15, 20>>[bd + 1]
            rd(bd) == ut.info.Scfsi[bd + 1] = 0
            bits(bd) == IF rd(bd) THEN (hi(bd) - lo(bd) + 1) * sl(1, bd) ELSE 0
            start(bd) == ut.at[2] + (IF bd > 0 THEN bits(0) ELSE 0)
                            + (IF bd > 1 THEN bits(1) ELSE 0) + (IF bd > 2 THEN bits(2) ELSE 0)
        IN  /\ long(0) => ut.at[2] - ut.at[1] = 11 * sl(0, 0) + 10 * sl(0, 2)
            /\ long(1) =>
                 /\ ut.at[3] - ut.at[2] = bits(0) + bits(1) + bits(2) + bits(3)
                 /\ \A bd \in 0..3 : \A sfb \in lo(bd)..hi(bd) :
                      ut.l[2][sfb + 1] =
                          IF rd(bd)
                          THEN FieldAt(ut.b.vec, start(bd) + (sfb - lo(bd)) * sl(1, bd),
                                       sl(1, bd))
                          ELSE ut.l[1][sfb + 1]

C21_Witness ==
    /\ ut.pc = "sclf" /\ ut.gr = 2
    /\ ut.info.Scfsi = (1 :> 1 @@ 2 :> 0 @@ 3 :> 1 @@ 4 :> 0)
    /\ ut.info.gs[1].WinSwitchFlag = 0 /\ ut.info.gs[2].WinSwitchFlag = 0
    /\ ut.info.gs[1].ScalefacCompress = 15 /\ ut.info.gs[2].ScalefacCompress = 15
    /\ ut.at = <<0, 74, 109>>
    /\ ut.l[2][1] = ut.l[1][1] /\ ut.l[1][1] # 0 /\ ut.l[2][7] # ut.l[1][7]

\* C24: the overlap store and the V-vector are carried across frames: when
\* frame N+1 is decoded right after frame N, with no Seek between, it starts
\* from what the decode of frame N left (for the channels frame N has); the
\* first frame decoded after construction or after a Seek starts from zeros.
C24_StateCarried ==
    /\ \A i \in 1..(Len(declog) - 1) :
         declog[i + 1].st =
             [c \in 1..2 |->
                 IF c <= NumberOfChannels(declog[i].h)
                 THEN <<[h |-> declog[i].h, si |-> declog[i].si, win |-> declog[i].win]>>
                 ELSE declog[i].st[c]]
    /\ declog # <<>> => declog[1].st = << <<>>, <<>> >>

C24_Witness ==
    /\ lastOp = "Read" /\ nseeks = 1 /\ Len(declog) = 3
    /\ declog[1].st[1] = <<>> /\ declog[3].st[1] # declog[2].st[1]
\* What hybridSynthesis does in the case of C24: for each subband sb it sets
\* is[sb*18+i] to rawout[i] plus the stored overlap and then stores
\* rawout[i+18], and it touches the overlap store of its channel only.
HybridOverlapAdd ==
    ut.pc = "hyb" =>
        \A c \in 0..1 :
            IF c \in ut.chs
            THEN \A sb \in 0..31 : \A i \in 0..17 :
                   /\ ut.is[c + 1][sb * 18 + i + 1]
                         = ut.raw[sb + 1][i + 1] + ut.store0[c + 1][sb * 18 + i + 1]
                   /\ ut.store[c + 1][sb * 18 + i + 1] = ut.raw[sb + 1][i + 19]
            ELSE ut.store[c + 1] = ut.store0[c + 1]
\* C25: reorder changes a granule only for short blocks (win_switch_flag = 1,
\* block_type = 2): in each band it processes, of width win_len, sample j of
\* window win goes to offset 3*j + win of the band; with mixed_block_flag = 1
\* it starts at sample 36 (band 3) and samples 0..35 stay; for the other block
\* types every sample stays.  A band is processed when it is the first one or
\* starts below count1.
C25_ReorderPermutes ==
    (ut.pc = "reorder" /\ ut.times = 1) =>
        LET S == sfBandIndicesShort(ut.sfreq)
            first == IF ut.g.MixedBlockFlag = 1 THEN 3 ELSE 0
            done(sfb) == sfb >= first /\ (sfb = first \/ 3 * S[sfb + 1] < ut.count1)
        IN  IF ut.g.WinSwitchFlag = 1 /\ ut.g.BlockType = 2
            THEN /\ \A sfb \in 0..12 :
                      LET base == 3 * S[sfb + 1]
                          w == S[sfb + 2] - S[sfb + 1]
                      IN  IF done(sfb)
                          THEN \A win \in 0..2 : \A j \in 0..(w - 1) :
                                 ut.is[base + 3 * j + win + 1] = ut.is0[base + win * w + j + 1]
                          ELSE \A o \in 0..(3 * w - 1) :
                                 ut.is[base + o + 1] = ut.is0[base + o + 1]
                 /\ ut.g.MixedBlockFlag = 1 => \A n \in 1..36 : ut.is[n] = ut.is0[n]
            ELSE ut.is = ut.is0

C25_Witness ==
    /\ ut.pc = "reorder" /\ ut.times = 1 /\ ut.g.BlockType = 2 /\ ut.g.MixedBlockFlag = 1
    /\ ut.count1 = 100 /\ ut.sfreq = 0
    /\ ut.is[38] = ut.is0[41] /\ ut.is[38] # ut.is0[38] /\ ut.is[500] = ut.is0[500]

\* C26: frequency inversion negates the samples at sb*18 + i with sb and i
\* odd and leaves every other sample of the granule; applied twice it gives
\* back every sample.
C26_FreqInversion ==
    ut.pc = "finv" =>
        /\ ut.times = 1 =>
             \A n \in 0..(SamplesPerGr - 1) :
                 ut.is[n + 1] = IF (n \div 18) % 2 = 1 /\ (n % 18) % 2 = 1
                                THEN 0 - ut.is0[n + 1] ELSE ut.is0[n + 1]
        /\ ut.times = 2 => ut.is = ut.is0

C26_Witness ==
    /\ ut.pc = "finv" /\ ut.times = 2 /\ ut.is[20] = -280 /\ ut.is0[20] = -280
\* C29: during requantize of a granule/channel with count1 in 0..576 the
\* scale-factor-band index stays inside the stored arrays: the long-block
\* index in 0..20 (ScalefacL has 21 entries) and the short-block index in
\* 0..11 (ScalefacS has 12 entries), for every sampling frequency, in the
\* long, short and mixed paths.
C29_SfbInRange ==
    (ut.pc = "requant" /\ ut.times = 1) =>
        /\ ut.sfbs.l \subseteq 0..20
        /\ ut.sfbs.s \subseteq 0..11

\* C30: on a seekable source whose pre-scan recorded at least one frame start,
\* Seek with any offset and a whence of SeekStart, SeekCurrent or SeekEnd
\* never panics: a target below 0 or at or beyond 4608*F ends in a returned
\* error.
C30_SeekNeverPanics ==
    [][\A a \in SeekArgs :
          (/\ seekable
           /\ Len(d.frameStarts) >= 1
           /\ a[2] \in {SeekStart, SeekCurrent, SeekEnd}
           /\ Seek(a[1], a[2])) => status' # "panicked"]_vars

\* C28: the pos field of the source equals the absolute input offset of the
\* next byte ReadFull will deliver (the reader's offset less the bytes pushed
\* back), after any sequence of ReadFull, Unread, Seek and rewind calls.
C28_SourcePos ==
    status = "open" => src.pos = src.rpos - Len(src.buf)

\* the input offset of the next byte the source will deliver
SrcOffset == src.rpos - Len(src.buf)

\* the four bytes at input offset p, when they are a frame header
HeaderAt(p) ==
    IF p + 4 <= Len(src.data) /\ IsValid(SubSeq(src.data, p + 1, p + 4))
    THEN <<SubSeq(src.data, p + 1, p + 4)>> ELSE <<>>

\* C27: a frame read successfully whose header starts at byte offset p has
\* consumed exactly frame_size bytes from p (4 header bytes, 2 CRC bytes when
\* protection_bit = 0, the side info and main_data_size main-data bytes), so
\* the next header search begins at p + frame_size; on the
\* insufficient-reservoir path as well.
C27_FrameBytes ==
    [][(/\ lastOp' = "Read"
        /\ Len(frlog') = 1 /\ frlog'[1].err = "nil"
        /\ HeaderAt(SrcOffset) # <<>>)
         => LET h == HeaderAt(SrcOffset)[1]
            IN  /\ SrcOffset' = SrcOffset + FrameSize(h)
                /\ FrameSize(h) = 4 + (IF ProtectionBit(h) = 0 THEN 2 ELSE 0)
                                    + SideInfoSize(h) + MainDataSize(h)]_vars

\* a Read has taken frame 1, which carries a CRC and asks for more reservoir
\* than there is, and the source stands at the start of frame 2
C27_Witness ==
    /\ lastOp = "Read" /\ nseeks = 0 /\ inp.tag = "none" /\ inp.n = 3
    /\ Len(frlog) = 1 /\ frlog[1].err = "nil" /\ frlog[1].path = "insufficient"
    /\ SrcOffset = 2 * FrameSize(FrameHeaderBytes(TRUE))

====
